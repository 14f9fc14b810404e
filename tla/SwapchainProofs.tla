---------------------------- MODULE SwapchainProofs ----------------------------
(***************************************************************************)
(* Proofs about the swap chain, for any size of the ring and any latency,   *)
(* any number of presents, resizes and failures.                            *)
(***************************************************************************)
EXTENDS Swapchain, FiniteSetTheorems, TLAPS

Leaving == app \in {"completes", "joins", "gone"}
Stopped == app \in {"joins", "gone"}

\* The last frames that were handed to the GPU, and to the wait thread.
Ended  == presentCount + (IF step \in {"push", "done"} THEN 1 ELSE 0)
Pushed == presentCount + (IF step = "done" THEN 1 ELSE 0)

\* Where the callback is, and what it knows there.
StepInv ==
  /\ step # "idle" => presentCount < userCount
  /\ Leaving => step = "idle" /\ presentCount = userCount
  /\ step \in {"destroy", "drainSleeps"} => next # "none"
  /\ step = "create" => swapchain = 0
  /\ step \in {"acquire", "acquireNext", "blit", "present"} => swapchain # 0

\* An image that was acquired belongs to the swapchain and has its semaphore
\* signalled, until it is blitted to and presented or the swapchain is destroyed.
ImageInv ==
  /\ image => swapchain # 0
  /\ image => signalled[acquire] \/ step \in {"present", "destroy", "drainSleeps"}
  /\ step = "acquireNext" => ~image
  /\ step = "blit" => image

\* Submissions are finished in the order of their numbers, blits to an image
\* have been handed to vkQueuePresentKHR but for the last one.
BlitInv ==
  \A i \in DOMAIN gpu :
    /\ gpu[i].frame # 0 => gpu[i].blit = 0 /\ gpu[i].of = 0
    /\ gpu[i].frame = 0 => blitDone < gpu[i].blit /\ gpu[i].blit <= blitCount
    /\ gpu[i].of # 0 => gpu[i].blit <= shown \/ step = "present"
    /\ \A j \in DOMAIN gpu : i < j /\ gpu[i].frame = 0 /\ gpu[j].frame = 0 => gpu[i].blit < gpu[j].blit

\* Frames end in their order, and the blits of a frame are before its end.
FrameInv ==
  /\ complete <= Ended
  /\ \A i \in DOMAIN gpu :
       /\ gpu[i].frame # 0 => complete < gpu[i].frame /\ gpu[i].frame <= Ended
       /\ \A j \in DOMAIN gpu : i < j /\ gpu[i].frame # 0 /\ gpu[j].frame # 0 => gpu[i].frame < gpu[j].frame
       /\ gpu[i].frame = 0 => \/ step \notin {"idle", "push", "done"}
                              \/ \E j \in DOMAIN gpu : i < j /\ gpu[j].frame # 0
                              \/ Leaving /\ gpu[i].of = 0
  /\ Stopped => complete >= userCount

\* The wait queue holds the frames between the last one that was released and the
\* last one that was pushed, and the sentinel.
First == IF worker = "pops" THEN released ELSE released + 1

QueueInv ==
  /\ Len(waitQueue) = Pushed - First + 1 + (IF Stopped THEN 1 ELSE 0)
  /\ Stopped => waitQueue # <<>>
  /\ \A i \in DOMAIN waitQueue :
       /\ IF Stopped /\ i = Len(waitQueue) THEN waitQueue[i] = Sentinel
                                           ELSE waitQueue[i].frame = First - 1 + i
       /\ waitQueue[i].id \in {0, swapchain}
  /\ worker \in {"waits", "waited", "pops"} => waitQueue # <<>> /\ Head(waitQueue) # Sentinel
  /\ worker = "exited" => waitQueue # <<>> /\ Head(waitQueue) = Sentinel

\* Each frame takes one count and gives one back.
LatencyInv ==
  /\ latencySem = Latency - 1 + released - userCount + waitCounts
  /\ waitCounts <= userCount
  /\ app \in {"latency", "waits"} => waitCounts > 0

\* The ring holds the last requests, and in the slot of an older one there is a
\* later one of the same slot.
RingInv ==
  \A n \in 1 .. userCount :
    /\ userCount < n + Ring => ring[Slot(n)] = n
    /\ ring[Slot(n)] \in n .. userCount /\ Slot(ring[Slot(n)]) = Slot(n)

\* What the callback works with.
RequestInv ==
  step # "idle" => /\ request \in presentCount + 1 .. userCount
                   /\ Slot(request) = Slot(presentCount + 1)

IInv ==
  /\ TypeOK /\ StepInv /\ ImageInv /\ BlitInv /\ FrameInv /\ QueueInv /\ LatencyInv /\ RingInv
  /\ RequestInv /\ BlitsAreOfLive /\ OnlyCurrentSignalled /\ NoPendingWait /\ NoMissedWakeup

\* Without the low latency mode the application makes up for every wait.
NormalInv ==
  /\ waitCounts <= 1
  /\ app \notin {"latency", "waits"} => waitCounts = 0
  /\ RequestIsItsOwn

-----------------------------------------------------------------------------
(* Operators of the model                                                  *)

LEMMA Constants ==
  /\ Ring \in Nat \ {0} /\ Latency \in Nat \ {0} /\ Latency <= Ring /\ LowModes \subseteq BOOLEAN
  /\ MaxPresents \in Nat /\ MaxResizes \in Nat /\ MaxTroubles \in Nat /\ MaxRetries \in Nat
BY LatencyFits, LowModesType, BoundsType

LEMMA SlotInRing ==
  ASSUME NEW n \in Nat
  PROVE  Slot(n) \in 0 .. Ring - 1
BY Constants DEF Slot

LEMMA SlotsApart ==
  ASSUME NEW m \in Nat, NEW n \in Nat, m < n, n < m + Ring
  PROVE  Slot(m) # Slot(n)
<1> SUFFICES ASSUME Slot(m) = Slot(n) PROVE FALSE
  OBVIOUS
<1> DEFINE p == m \div Ring
           q == n \div Ring
<1>1. Ring \in Nat \ {0}
  BY Constants
<1>2. /\ p \in Int /\ q \in Int /\ Slot(m) \in Int
      /\ m = Ring * p + Slot(m) /\ n = Ring * q + Slot(m)
  BY <1>1 DEF Slot
<1> HIDE DEF p, q
<1>3. CASE q <= p
  <2>1. Ring * q <= Ring * p
    BY <1>1, <1>2, <1>3
  <2> QED BY <1>1, <1>2, <2>1
<1>4. CASE q >= p + 1
  <2>1. Ring * q >= Ring * (p + 1) /\ Ring * (p + 1) = Ring * p + Ring
    BY <1>1, <1>2, <1>4
  <2> QED BY <1>1, <1>2, <2>1
<1> QED BY <1>2, <1>3, <1>4

LEMMA LingeringIsNat ==
  ASSUME TypeOK
  PROVE  Lingering \in Nat
<1>1. DOMAIN signalled = 0 .. Ring - 1
  BY DEF TypeOK
<1>2. IsFiniteSet(0 .. Ring - 1)
  BY Constants, FS_Interval
<1>3. IsFiniteSet({i \in DOMAIN signalled : signalled[i]})
  BY <1>1, <1>2, FS_Subset
<1> QED BY <1>3, FS_CardinalityType DEF Lingering

-----------------------------------------------------------------------------
(* The callback                                                            *)

LEMMA StepStep ==
  ASSUME TypeOK, StepInv, Next
  PROVE  StepInv'
<1> USE DEF StepInv, Leaving, appVars, taskVars, acqVars, gpuVars, workVars
<1>1. userCount \in Int /\ presentCount \in Int /\ created \in Nat /\ presentCount <= userCount
  BY Constants DEF TypeOK, Frames
<1>2. CASE App
  <2>1. CASE Present
    BY <1>1, <2>1 DEF Present
  <2>2. CASE ReturnEarly \/ DecideToWait \/ AcquireLatency \/ Resize
    BY <2>2 DEF ReturnEarly, DecideToWait, AcquireLatency, Resize
  <2>3. CASE Reallocate \/ Release
    BY <2>3 DEF Reallocate, Release
  <2>4. CASE QueueDrained
    BY <1>1, <2>4 DEF QueueDrained
  <2>5. CASE StopWorker \/ JoinWorker
    BY <2>5 DEF StopWorker, JoinWorker
  <2> QED BY <1>2, <2>1, <2>2, <2>3, <2>4, <2>5 DEF App
<1>3. CASE Callback
  <2>1. ASSUME NEW changes \in BOOLEAN, CallbackBegins(changes) PROVE StepInv'
    BY <1>1, <2>1 DEF CallbackBegins
  <2>2. CASE CheckSwapchain
    BY <2>2 DEF CheckSwapchain
  <2>3. CASE NothingToDestroy \/ DrainWaiter
    BY <2>3 DEF NothingToDestroy, DrainWaiter, TypeOK
  <2>4. CASE DestroySwapchain
    BY <2>4 DEF DestroySwapchain, TypeOK
  <2>5. ASSUME NEW result \in {"ok", "none", "lost"}, CreateSwapchain(result) PROVE StepInv'
    BY <1>1, <2>5 DEF CreateSwapchain
  <2>6. CASE HasImage \/ NextSemaphore
    BY <2>6 DEF HasImage, NextSemaphore
  <2>7. ASSUME NEW result \in {"ok", "suboptimal", "outOfDate", "lost"}, AcquireImage(result)
        PROVE  StepInv'
    BY <2>7 DEF AcquireImage, Failed
  <2>8. ASSUME NEW result \in {"ok", "suboptimal", "outOfDate", "lost"}, NEW useId \in BOOLEAN,
               QueuePresent(result, useId)
        PROVE  StepInv'
    BY <2>8 DEF QueuePresent, Failed
  <2>9. ASSUME NEW ok \in BOOLEAN, SubmitBlit(ok) PROVE StepInv'
    BY <2>9 DEF SubmitBlit
  <2>10. CASE SignalComplete \/ PushPresentId
    BY <2>10 DEF SignalComplete, PushPresentId
  <2>11. CASE CallbackEnds
    BY <1>1, <2>11 DEF CallbackEnds
  <2> QED BY <1>3, <2>1, <2>2, <2>3, <2>4, <2>5, <2>6, <2>7, <2>8, <2>9, <2>10, <2>11 DEF Callback
<1>4. CASE Gpu
  BY <1>4 DEF Gpu
<1>5. CASE Worker
  <2>1. CASE WorkerPops
    BY <2>1 DEF WorkerPops
  <2> QED BY <1>5, <2>1 DEF Worker, WorkerSleeps, WorkerTakes, WorkerWaited, WorkerReleases
<1> QED BY <1>2, <1>3, <1>4, <1>5 DEF Next

\* The image and the acquire semaphores.
AcquireInv == ImageInv /\ OnlyCurrentSignalled

LEMMA AcquireStep ==
  ASSUME TypeOK, StepInv, AcquireInv, Next
  PROVE  AcquireInv'
<1> USE DEF AcquireInv, ImageInv, OnlyCurrentSignalled, appVars, taskVars, acqVars, gpuVars, workVars
<1>1. /\ image \in BOOLEAN /\ acquire \in 0 .. Ring - 1 /\ created \in Nat
      /\ signalled \in [0 .. Ring - 1 -> BOOLEAN]
  BY DEF TypeOK
<1>2. CASE Callback
  <2>1. CASE CheckSwapchain \/ DrainWaiter
    BY <2>1 DEF CheckSwapchain, DrainWaiter
  <2>0. CASE NothingToDestroy
    <3>1. ~image /\ next \in {"check", "create", "signal"}
      BY <2>0 DEF NothingToDestroy, StepInv, TypeOK
    <3> QED BY <2>0, <3>1 DEF NothingToDestroy
  <2>2. CASE DestroySwapchain
    <3>1. next \in {"check", "create", "signal"}
      BY <2>2 DEF DestroySwapchain, StepInv, TypeOK
    <3> QED BY <2>2, <3>1 DEF DestroySwapchain
  <2>3. ASSUME NEW result \in {"ok", "none", "lost"}, CreateSwapchain(result) PROVE AcquireInv'
    BY <1>1, <2>3 DEF CreateSwapchain, StepInv
  <2>4. CASE HasImage
    BY <2>4 DEF HasImage
  <2>5. CASE NextSemaphore
    <3>1. acquire' \in 0 .. Ring - 1
      BY <1>1, <2>5, Constants DEF NextSemaphore
    <3>2. signalled' \in [0 .. Ring - 1 -> BOOLEAN] /\ \A i \in 0 .. Ring - 1 : ~signalled'[i]
      BY <1>1, <2>5 DEF NextSemaphore
    <3> QED BY <2>5, <3>2 DEF NextSemaphore
  <2>6. ASSUME NEW result \in {"ok", "suboptimal", "outOfDate", "lost"}, AcquireImage(result)
        PROVE  AcquireInv'
    <3>1. CASE result \in {"ok", "suboptimal"}
      BY <1>1, <2>6, <3>1 DEF AcquireImage, StepInv
    <3>2. CASE result \notin {"ok", "suboptimal"}
      BY <1>1, <2>6, <3>2 DEF AcquireImage, Failed
    <3> QED BY <3>1, <3>2
  <2>7. ASSUME NEW result \in {"ok", "suboptimal", "outOfDate", "lost"}, NEW useId \in BOOLEAN,
               QueuePresent(result, useId)
        PROVE  AcquireInv'
    BY <1>1, <2>7 DEF QueuePresent, Failed
  <2>8. ASSUME NEW ok \in BOOLEAN, SubmitBlit(ok) PROVE AcquireInv'
    BY <1>1, <2>8 DEF SubmitBlit
  <2>9. ASSUME NEW changes \in BOOLEAN, CallbackBegins(changes) PROVE AcquireInv'
    BY <1>1, <2>9 DEF CallbackBegins
  <2>10. CASE SignalComplete \/ PushPresentId \/ CallbackEnds
    BY <2>10 DEF SignalComplete, PushPresentId, CallbackEnds
  <2> QED BY <1>2, <2>0, <2>1, <2>2, <2>3, <2>4, <2>5, <2>6, <2>7, <2>8, <2>9, <2>10 DEF Callback
<1>3. CASE WorkerPops
  BY <1>3 DEF WorkerPops
<1>4. CASE UNCHANGED <<image, swapchain, signalled, acquire, step>>
  BY <1>4
<1>5. App => UNCHANGED <<image, swapchain, signalled, acquire, step>>
  BY DEF App, Present, ReturnEarly, DecideToWait, AcquireLatency, Resize, Reallocate, Release,
         QueueDrained, StopWorker, JoinWorker
<1> QED BY <1>2, <1>3, <1>4, <1>5
        DEF Next, Gpu, Worker, WorkerSleeps, WorkerTakes, WorkerWaited, WorkerReleases

-----------------------------------------------------------------------------
(* The VkQueue                                                             *)

Submission == [blit : Nat, frame : Frames, of : Nat]

LEMMA ConcatElements ==
  ASSUME NEW S, NEW s \in Seq(S), NEW t \in Seq(S)
  PROVE  /\ s \o t \in Seq(S) /\ Len(s) \in Nat /\ Len(t) \in Nat
         /\ DOMAIN s = 1 .. Len(s) /\ DOMAIN (s \o t) = 1 .. Len(s) + Len(t)
         /\ \A i \in 1 .. Len(s) : (s \o t)[i] = s[i]
         /\ \A i \in Len(s) + 1 .. Len(s) + Len(t) : (s \o t)[i] = t[i - Len(s)]
OBVIOUS

LEMMA SubmissionTypes ==
  ASSUME TypeOK
  PROVE  /\ gpu \in Seq(Submission) /\ DOMAIN gpu = 1 .. Len(gpu) /\ Len(gpu) \in Nat
         /\ \A i \in DOMAIN gpu : /\ gpu[i] \in Submission
                                  /\ gpu[i].blit \in Nat /\ gpu[i].frame \in Nat /\ gpu[i].of \in Nat
<1>1. gpu \in Seq(Submission)
  BY DEF TypeOK, Submission
<1>2. \A i \in DOMAIN gpu : gpu[i] \in Submission
  BY <1>1
<1>3. \A e \in Submission : e.blit \in Nat /\ e.frame \in Nat /\ e.of \in Nat
  BY DEF Submission, Frames
<1> QED BY <1>1, <1>2, <1>3

LEMMA BlitSubmitted ==
  ASSUME TypeOK, BlitInv, BlitsAreOfLive, NEW e \in Submission, gpu' = Append(gpu, e),
         e.frame # 0 => e.blit = 0 /\ e.of = 0 /\ blitCount' = blitCount,
         e.frame = 0 => e.blit = blitCount + 1 /\ blitCount' = blitCount + 1,
         e.of # 0 => e.of = swapchain /\ step' = "present",
         step # "present", blitDone' = blitDone, shown' = shown, swapchain' = swapchain
  PROVE  BlitInv' /\ BlitsAreOfLive'
<1>1. gpu \in Seq(Submission) /\ blitCount \in Nat /\ blitDone \in Nat /\ blitDone <= blitCount
  BY DEF TypeOK, Submission
<1>2. /\ DOMAIN gpu' = 1 .. Len(gpu) + 1 /\ DOMAIN gpu = 1 .. Len(gpu) /\ Len(gpu) \in Nat
      /\ \A i \in 1 .. Len(gpu) : gpu'[i] = gpu[i] /\ gpu[i] \in Submission
      /\ gpu'[Len(gpu) + 1] = e
  BY <1>1
<1>3. \A i \in 1 .. Len(gpu) : gpu[i].blit \in Nat
  BY <1>2 DEF Submission
<1>4. e.blit \in Nat
  BY DEF Submission
<1>5. BlitInv'
  <2> SUFFICES ASSUME NEW i \in DOMAIN gpu'
      PROVE  /\ gpu'[i].frame # 0 => gpu'[i].blit = 0 /\ gpu'[i].of = 0
             /\ gpu'[i].frame = 0 => blitDone' < gpu'[i].blit /\ gpu'[i].blit <= blitCount'
             /\ gpu'[i].of # 0 => gpu'[i].blit <= shown' \/ step' = "present"
             /\ \A j \in DOMAIN gpu' : i < j /\ gpu'[i].frame = 0 /\ gpu'[j].frame = 0 =>
                  gpu'[i].blit < gpu'[j].blit
    BY DEF BlitInv
  <2>1. CASE i = Len(gpu) + 1
    BY <1>1, <1>2, <1>4, <2>1
  <2>2. CASE i # Len(gpu) + 1
    <3>1. i \in 1 .. Len(gpu) /\ gpu'[i] = gpu[i]
      BY <1>2, <2>2
    <3> QED BY <1>1, <1>2, <1>3, <1>4, <3>1 DEF BlitInv
  <2> QED BY <2>1, <2>2
<1>6. BlitsAreOfLive'
  BY <1>2 DEF BlitsAreOfLive
<1> QED BY <1>5, <1>6

\* The waits that are submitted for the semaphores left signalled.
LEMMA DrainedElements ==
  ASSUME TypeOK, QueueDrained
  PROVE  LET n == Len(gpu) IN
         /\ gpu' \in Seq(Submission) /\ blitCount' = blitCount + Lingering
         /\ DOMAIN gpu' = 1 .. n + Lingering
         /\ \A i \in 1 .. n : gpu'[i] = gpu[i]
         /\ \A i \in n + 1 .. n + Lingering :
              gpu'[i].blit = blitCount + i - n /\ gpu'[i].frame = 0 /\ gpu'[i].of = 0
<1> DEFINE s == [i \in 1 .. Lingering |-> Blit(blitCount + i, 0)]
           n == Len(gpu)
<1>1. Lingering \in Nat /\ gpu \in Seq(Submission) /\ n \in Nat /\ blitCount \in Nat
  BY LingeringIsNat, SubmissionTypes DEF TypeOK
<1>2. \A i \in 1 .. Lingering : Blit(blitCount + i, 0) \in Submission
  BY <1>1, Constants DEF Blit, Submission, Frames
<1>3. s \in Seq(Submission) /\ Len(s) = Lingering
  BY <1>1, <1>2
<1>4. gpu' = gpu \o s /\ blitCount' = blitCount + Lingering
  BY DEF QueueDrained
<1>5. \A k \in 1 .. Lingering : s[k].blit = blitCount + k /\ s[k].frame = 0 /\ s[k].of = 0
  BY <1>1 DEF Blit
<1> HIDE DEF s
<1>6. gpu' \in Seq(Submission) /\ DOMAIN gpu' = 1 .. n + Lingering
  BY <1>1, <1>3, <1>4, ConcatElements
<1>7. /\ \A i \in 1 .. n : gpu'[i] = gpu[i]
      /\ \A i \in n + 1 .. n + Lingering : gpu'[i] = s[i - n]
  BY <1>1, <1>3, <1>4, ConcatElements
<1>8. \A i \in n + 1 .. n + Lingering : i - n \in 1 .. Lingering /\ blitCount + (i - n) = blitCount + i - n
  BY <1>1
<1>9. \A i \in n + 1 .. n + Lingering :
        gpu'[i].blit = blitCount + i - n /\ gpu'[i].frame = 0 /\ gpu'[i].of = 0
  BY <1>5, <1>7, <1>8
<1> HIDE DEF n
<1> QED BY <1>4, <1>6, <1>7, <1>9 DEF n

LEMMA BlitDrained ==
  ASSUME TypeOK, BlitInv, BlitsAreOfLive, QueueDrained
  PROVE  BlitInv' /\ BlitsAreOfLive' /\ gpu' \in Seq(Submission) /\ blitCount' \in Nat
<1> DEFINE n == Len(gpu)
<1>1. Lingering \in Nat /\ blitCount \in Nat /\ blitDone \in Nat /\ blitDone <= blitCount
  BY LingeringIsNat DEF TypeOK
<1>4. step = "idle" /\ blitCount' = blitCount + Lingering
      /\ UNCHANGED <<step, blitDone, shown, swapchain>>
  BY DrainedElements DEF QueueDrained, taskVars
<1>5. /\ gpu' \in Seq(Submission) /\ n \in Nat /\ DOMAIN gpu = 1 .. n
      /\ DOMAIN gpu' = 1 .. n + Lingering
      /\ \A i \in 1 .. n : gpu'[i] = gpu[i] /\ gpu[i] \in Submission
  BY DrainedElements, SubmissionTypes
<1>6. \A i \in n + 1 .. n + Lingering :
        gpu'[i].blit = blitCount + i - n /\ gpu'[i].frame = 0 /\ gpu'[i].of = 0
  BY DrainedElements
<1> HIDE DEF n
<1>7. \A i \in 1 .. n : gpu[i].blit \in Nat
  BY <1>5, SubmissionTypes
<1>8. BlitInv'
  <2> SUFFICES ASSUME NEW i \in DOMAIN gpu'
      PROVE  /\ gpu'[i].frame # 0 => gpu'[i].blit = 0 /\ gpu'[i].of = 0
             /\ gpu'[i].frame = 0 => blitDone' < gpu'[i].blit /\ gpu'[i].blit <= blitCount'
             /\ gpu'[i].of # 0 => gpu'[i].blit <= shown' \/ step' = "present"
             /\ \A j \in DOMAIN gpu' : i < j /\ gpu'[i].frame = 0 /\ gpu'[j].frame = 0 =>
                  gpu'[i].blit < gpu'[j].blit
    BY DEF BlitInv
  <2>1. CASE i > n
    <3>1. i \in n + 1 .. n + Lingering
      BY <1>1, <1>5, <2>1
    <3>2. gpu'[i].blit = blitCount + i - n /\ gpu'[i].frame = 0 /\ gpu'[i].of = 0
      BY <1>6, <3>1
    <3>3. blitDone' < gpu'[i].blit /\ gpu'[i].blit <= blitCount'
      BY <1>1, <1>4, <1>5, <3>1, <3>2
    <3>4. ASSUME NEW j \in DOMAIN gpu', i < j PROVE gpu'[i].blit < gpu'[j].blit
      <4>1. j \in n + 1 .. n + Lingering
        BY <1>1, <1>5, <3>1, <3>4
      <4>2. gpu'[j].blit = blitCount + j - n
        BY <1>6, <4>1
      <4> QED BY <1>1, <1>5, <3>1, <3>2, <3>4, <4>1, <4>2
    <3> QED BY <3>2, <3>3, <3>4
  <2>2. CASE ~(i > n)
    <3>1. i \in 1 .. n /\ gpu'[i] = gpu[i]
      BY <1>1, <1>5, <2>2
    <3>2. ASSUME NEW j \in DOMAIN gpu', i < j, gpu'[i].frame = 0, gpu'[j].frame = 0
          PROVE  gpu'[i].blit < gpu'[j].blit
      <4>1. CASE j > n
        BY <1>1, <1>5, <1>6, <1>7, <3>1, <3>2, <4>1 DEF BlitInv
      <4>2. CASE ~(j > n)
        BY <1>1, <1>5, <3>1, <3>2, <4>2 DEF BlitInv
      <4> QED BY <4>1, <4>2
    <3> QED BY <1>1, <1>4, <1>5, <1>7, <3>1, <3>2 DEF BlitInv
  <2> QED BY <2>1, <2>2
<1>9. BlitsAreOfLive'
  BY <1>1, <1>4, <1>5, <1>6 DEF BlitsAreOfLive
<1> QED BY <1>1, <1>4, <1>5, <1>8, <1>9

\* A swapchain is destroyed with nothing left to do for it.
LEMMA NothingOfSwapchain ==
  ASSUME TypeOK, BlitInv, step # "present", PresentsAreOver
  PROVE  \A i \in DOMAIN gpu : gpu[i].of = 0
<1>1. shown \in Nat /\ blitDone \in Nat /\ blitDone >= shown
  BY DEF TypeOK, PresentsAreOver
<1> QED BY <1>1, SubmissionTypes DEF BlitInv

LEMMA BlitFinished ==
  ASSUME TypeOK, BlitInv, BlitsAreOfLive, Gpu
  PROVE  BlitInv' /\ BlitsAreOfLive' /\ blitDone' \in blitDone .. blitCount
<1>1. gpu \in Seq(Submission) /\ gpu # <<>> /\ gpu' = Tail(gpu) /\ blitCount \in Nat
      /\ blitDone \in Nat /\ blitDone <= blitCount
  BY DEF TypeOK, Submission, Gpu
<1>2. UNCHANGED <<step, blitCount, shown, swapchain>>
  BY DEF Gpu, acqVars, taskVars
<1>3. /\ Len(gpu) \in Nat \ {0} /\ DOMAIN gpu = 1 .. Len(gpu) /\ DOMAIN gpu' = 1 .. Len(gpu) - 1
      /\ Head(gpu) = gpu[1] /\ gpu[1] \in Submission
      /\ \A i \in 1 .. Len(gpu) - 1 : gpu'[i] = gpu[i + 1]
  BY <1>1
<1>4. blitDone' = IF gpu[1].frame = 0 THEN gpu[1].blit ELSE blitDone
  BY <1>3 DEF Gpu
<1>5. \A i \in 1 .. Len(gpu) : gpu[i].blit \in Nat
  BY SubmissionTypes
<1>6. \A i \in DOMAIN gpu' : i + 1 \in DOMAIN gpu /\ gpu'[i] = gpu[i + 1] /\ 1 < i + 1
  BY <1>3
<1>7. BlitInv'
  <2> SUFFICES ASSUME NEW i \in DOMAIN gpu'
      PROVE  /\ gpu'[i].frame # 0 => gpu'[i].blit = 0 /\ gpu'[i].of = 0
             /\ gpu'[i].frame = 0 => blitDone' < gpu'[i].blit /\ gpu'[i].blit <= blitCount'
             /\ gpu'[i].of # 0 => gpu'[i].blit <= shown' \/ step' = "present"
             /\ \A j \in DOMAIN gpu' : i < j /\ gpu'[i].frame = 0 /\ gpu'[j].frame = 0 =>
                  gpu'[i].blit < gpu'[j].blit
    BY DEF BlitInv
  <2>1. 1 \in DOMAIN gpu /\ i + 1 \in DOMAIN gpu /\ gpu'[i] = gpu[i + 1] /\ 1 < i + 1
    BY <1>3, <1>6
  <2>2. \A j \in DOMAIN gpu' : i < j => i + 1 < j + 1 /\ j + 1 \in DOMAIN gpu /\ gpu'[j] = gpu[j + 1]
    BY <1>3, <1>6
  <2> QED BY <1>2, <1>4, <2>1, <2>2 DEF BlitInv
<1>8. BlitsAreOfLive'
  BY <1>2, <1>6 DEF BlitsAreOfLive
<1>9. blitDone' \in blitDone .. blitCount
  BY <1>1, <1>3, <1>4, <1>5 DEF BlitInv
<1> QED BY <1>7, <1>8, <1>9

VkQueueInv == BlitInv /\ BlitsAreOfLive

\* Steps that leave the submissions alone.
LEMMA BlitUnchanged ==
  ASSUME VkQueueInv, UNCHANGED <<gpu, blitDone, blitCount, shown, swapchain>>,
         step = "present" => step' = "present"
  PROVE  VkQueueInv'
BY DEF VkQueueInv, BlitInv, BlitsAreOfLive

LEMMA BlitStep ==
  ASSUME TypeOK, StepInv, VkQueueInv, Next
  PROVE  VkQueueInv'
<1> USE DEF appVars, taskVars, acqVars, gpuVars, workVars
<1>1. TypeOK /\ BlitInv /\ BlitsAreOfLive
  BY DEF VkQueueInv
<1>2. CASE App
  <2>1. CASE QueueDrained
    BY <1>1, <2>1, BlitDrained DEF VkQueueInv
  <2>2. CASE ~QueueDrained
    <3>1. UNCHANGED <<gpu, blitDone, blitCount, shown, swapchain, step>>
      BY <1>2, <2>2 DEF App, Present, ReturnEarly, DecideToWait, AcquireLatency, Resize,
                        Reallocate, Release, StopWorker, JoinWorker
    <3> QED BY <3>1, BlitUnchanged
  <2> QED BY <2>1, <2>2
<1>3. CASE Callback
  <2>1. ASSUME NEW changes \in BOOLEAN, CallbackBegins(changes) PROVE VkQueueInv'
    BY <2>1, BlitUnchanged DEF CallbackBegins
  <2>2. CASE CheckSwapchain \/ NothingToDestroy \/ DrainWaiter \/ HasImage \/ PushPresentId
             \/ CallbackEnds
    <3>1. UNCHANGED <<gpu, blitDone, blitCount, shown, swapchain>> /\ step # "present"
      BY <2>2 DEF CheckSwapchain, NothingToDestroy, DrainWaiter, HasImage, PushPresentId, CallbackEnds
    <3> QED BY <3>1, BlitUnchanged
  <2>3. CASE DestroySwapchain
    <3>1. \A i \in DOMAIN gpu : gpu[i].of = 0
      BY <1>1, <2>3, NothingOfSwapchain DEF DestroySwapchain
    <3> QED BY <1>1, <2>3, <3>1 DEF DestroySwapchain, VkQueueInv, BlitInv, BlitsAreOfLive
  <2>4. ASSUME NEW result \in {"ok", "none", "lost"}, CreateSwapchain(result) PROVE VkQueueInv'
    <3>1. UNCHANGED <<gpu, blitDone, blitCount, shown>> /\ step = "create" /\ swapchain = 0
      BY <2>4 DEF CreateSwapchain, StepInv
    <3>2. \A i \in DOMAIN gpu : gpu[i].of = 0
      BY <1>1, <3>1 DEF BlitsAreOfLive
    <3> QED BY <1>1, <3>1, <3>2 DEF VkQueueInv, BlitInv, BlitsAreOfLive
  <2>5. CASE NextSemaphore
    <3>1. CASE signalled[acquire]
      <4> DEFINE e == Blit(blitCount + 1, 0)
      <4>1. e \in Submission /\ e.frame = 0 /\ e.blit = blitCount + 1 /\ e.of = 0
        BY Constants DEF TypeOK, Submission, Blit, Frames
      <4>2. gpu' = Append(gpu, e) /\ blitCount' = blitCount + 1 /\ step # "present"
            /\ UNCHANGED <<blitDone, shown, swapchain>>
        BY <2>5, <3>1 DEF NextSemaphore
      <4> HIDE DEF e
      <4> QED BY <1>1, <4>1, <4>2, BlitSubmitted DEF VkQueueInv
    <3>2. CASE ~signalled[acquire]
      <4>1. UNCHANGED <<gpu, blitDone, blitCount, shown, swapchain>> /\ step # "present"
        BY <2>5, <3>2 DEF NextSemaphore
      <4> QED BY <4>1, BlitUnchanged
    <3> QED BY <3>1, <3>2
  <2>6. ASSUME NEW result \in {"ok", "suboptimal", "outOfDate", "lost"}, AcquireImage(result)
        PROVE  VkQueueInv'
    <3>1. UNCHANGED <<gpu, blitDone, blitCount, shown, swapchain>> /\ step # "present"
      BY <2>6 DEF AcquireImage, Failed
    <3> QED BY <3>1, BlitUnchanged
  <2>7. ASSUME NEW result \in {"ok", "suboptimal", "outOfDate", "lost"}, NEW useId \in BOOLEAN,
               QueuePresent(result, useId)
        PROVE  VkQueueInv'
    <3>1. UNCHANGED <<gpu, blitDone, blitCount, swapchain>> /\ shown' = blitCount
      BY <2>7 DEF QueuePresent
    <3>2. \A i \in DOMAIN gpu : gpu[i].of # 0 => gpu[i].blit <= blitCount
      BY <1>1 DEF BlitInv
    <3> QED BY <1>1, <3>1, <3>2 DEF VkQueueInv, BlitInv, BlitsAreOfLive
  <2>8. ASSUME NEW ok \in BOOLEAN, SubmitBlit(ok) PROVE VkQueueInv'
    <3>1. CASE ok
      <4> DEFINE e == Blit(blitCount + 1, swapchain)
      <4>1. e \in Submission /\ e.frame = 0 /\ e.blit = blitCount + 1 /\ e.of = swapchain
        BY Constants DEF TypeOK, Submission, Blit, Frames
      <4>2. gpu' = Append(gpu, e) /\ blitCount' = blitCount + 1 /\ step # "present"
            /\ step' = "present" /\ UNCHANGED <<blitDone, shown, swapchain>>
        BY <2>8, <3>1 DEF SubmitBlit
      <4> HIDE DEF e
      <4> QED BY <1>1, <4>1, <4>2, BlitSubmitted DEF VkQueueInv
    <3>2. CASE ~ok
      <4>1. UNCHANGED <<gpu, blitDone, shown, swapchain>> /\ blitCount' = blitCount + 1
            /\ step # "present"
        BY <2>8, <3>2 DEF SubmitBlit
      <4>2. blitCount \in Nat /\ \A i \in DOMAIN gpu : gpu[i].blit \in Nat
        BY SubmissionTypes DEF TypeOK
      <4> QED BY <1>1, <4>1, <4>2 DEF VkQueueInv, BlitInv, BlitsAreOfLive
    <3> QED BY <3>1, <3>2
  <2>9. CASE SignalComplete
    <3> DEFINE e == Complete(presentCount + 1)
    <3>1. presentCount + 1 \in Frames \ {0}
      BY <2>9, Constants DEF TypeOK, StepInv, SignalComplete, Frames
    <3>2. e \in Submission /\ e.frame # 0 /\ e.blit = 0 /\ e.of = 0
      BY <3>1 DEF Submission, Complete
    <3>3. gpu' = Append(gpu, e) /\ step # "present"
          /\ UNCHANGED <<blitDone, shown, swapchain, blitCount>>
      BY <2>9 DEF SignalComplete
    <3> HIDE DEF e
    <3> QED BY <1>1, <3>2, <3>3, BlitSubmitted DEF VkQueueInv
  <2> QED BY <1>3, <2>1, <2>2, <2>3, <2>4, <2>5, <2>6, <2>7, <2>8, <2>9 DEF Callback
<1>4. CASE Gpu
  BY <1>1, <1>4, BlitFinished DEF VkQueueInv
<1>5. CASE Worker
  <2>1. UNCHANGED <<gpu, blitDone, blitCount, shown, swapchain>> /\ (step = "present" => step' = "present")
    BY <1>5 DEF Worker, WorkerSleeps, WorkerTakes, WorkerWaited, WorkerReleases, WorkerPops
  <2> QED BY <2>1, BlitUnchanged
<1> QED BY <1>2, <1>3, <1>4, <1>5 DEF Next

LEMMA PendingWaitStep ==
  ASSUME TypeOK, StepInv, AcquireInv, VkQueueInv, NoPendingWait, Next
  PROVE  NoPendingWait'
<1> USE DEF appVars, taskVars, acqVars, gpuVars, workVars
<1>1. /\ acquire \in 0 .. Ring - 1 /\ blitCount \in Nat
      /\ signalled \in [0 .. Ring - 1 -> BOOLEAN]
      /\ consumed \in [0 .. Ring - 1 -> 0 .. blitCount] /\ blitDone \in Nat
  BY DEF TypeOK
<1>2. \A i \in 0 .. Ring - 1 : consumed[i] \in Nat
  BY <1>1
<1>3. CASE NextSemaphore
  <2>1. \A i \in 0 .. Ring - 1 : ~signalled'[i]
    BY <1>1, <1>3 DEF NextSemaphore, AcquireInv, OnlyCurrentSignalled
  <2>2. DOMAIN signalled' = 0 .. Ring - 1
    BY <1>1, <1>3 DEF NextSemaphore
  <2> QED BY <2>1, <2>2 DEF NoPendingWait
<1>4. ASSUME NEW result \in {"ok", "suboptimal", "outOfDate", "lost"}, AcquireImage(result)
      PROVE  NoPendingWait'
  <2>1. UNCHANGED <<consumed, blitDone>> /\ consumed[acquire] <= blitDone
    BY <1>1, <1>2, <1>4 DEF AcquireImage
  <2>2. signalled' \in {signalled, [signalled EXCEPT ![acquire] = TRUE]}
    BY <1>4 DEF AcquireImage
  <2> QED BY <1>1, <2>1, <2>2 DEF NoPendingWait
<1>5. ASSUME NEW ok \in BOOLEAN, SubmitBlit(ok) PROVE NoPendingWait'
  <2>1. \/ UNCHANGED <<signalled, consumed, blitDone>>
        \/ /\ signalled' = [signalled EXCEPT ![acquire] = FALSE]
           /\ consumed' = [consumed EXCEPT ![acquire] = blitCount'] /\ UNCHANGED blitDone
    BY <1>5 DEF SubmitBlit
  <2> QED BY <1>1, <2>1 DEF NoPendingWait
<1>6. CASE Gpu
  <2>1. blitDone' \in blitDone .. blitCount /\ UNCHANGED <<signalled, consumed>>
    BY <1>6, BlitFinished DEF VkQueueInv, Gpu
  <2> QED BY <1>1, <1>2, <2>1 DEF NoPendingWait
<1>7. CASE UNCHANGED <<signalled, consumed, blitDone>>
  BY <1>7 DEF NoPendingWait
<1>8. App => UNCHANGED <<signalled, consumed, blitDone>>
  BY DEF App, Present, ReturnEarly, DecideToWait, AcquireLatency, Resize, Reallocate, Release,
         QueueDrained, StopWorker, JoinWorker
<1>9. Worker => UNCHANGED <<signalled, consumed, blitDone>>
  BY DEF Worker, WorkerSleeps, WorkerTakes, WorkerWaited, WorkerReleases, WorkerPops
<1>10. ASSUME Callback, ~NextSemaphore,
              \A result \in {"ok", "suboptimal", "outOfDate", "lost"} : ~AcquireImage(result),
              \A ok \in BOOLEAN : ~SubmitBlit(ok)
       PROVE  UNCHANGED <<signalled, consumed, blitDone>>
  BY <1>10 DEF Callback, CallbackBegins, CheckSwapchain, NothingToDestroy, DrainWaiter,
               DestroySwapchain, CreateSwapchain, HasImage, QueuePresent, SignalComplete,
               PushPresentId, CallbackEnds
<1> QED BY <1>3, <1>4, <1>5, <1>6, <1>7, <1>8, <1>9, <1>10 DEF Next

-----------------------------------------------------------------------------
(* The frames that end                                                     *)

InFrame == step \notin {"idle", "push", "done"}

LEMMA EndedInt ==
  ASSUME TypeOK
  PROVE  /\ Ended \in Nat /\ Pushed \in Nat /\ complete \in Nat /\ userCount \in Nat
         /\ presentCount \in Nat /\ released \in Nat
         /\ gpu \in Seq(Submission) /\ \A i \in DOMAIN gpu : gpu[i].frame \in Nat
<1>1. Frames \subseteq Nat
  BY DEF Frames
<1>2. userCount \in Nat
  BY <1>1 DEF TypeOK
<1>3. presentCount \in Nat /\ complete \in Nat /\ released \in Nat
  BY <1>2 DEF TypeOK
<1> QED BY <1>2, <1>3, SubmissionTypes DEF Ended, Pushed

LEMMA FrameUnchanged ==
  ASSUME TypeOK, FrameInv, UNCHANGED <<gpu, complete>>, Ended' = Ended,
         InFrame => InFrame', Leaving => Leaving', Stopped' => complete >= userCount'
  PROVE  FrameInv'
BY DEF FrameInv, InFrame

LEMMA FrameBlit ==
  ASSUME TypeOK, FrameInv, NEW e \in Submission, e.frame = 0, gpu' = Append(gpu, e), InFrame',
         UNCHANGED <<complete, app, userCount>>, Ended' = Ended
  PROVE  FrameInv'
<1>1. /\ DOMAIN gpu = 1 .. Len(gpu) /\ DOMAIN gpu' = 1 .. Len(gpu) + 1 /\ Len(gpu) \in Nat
      /\ \A i \in 1 .. Len(gpu) : gpu'[i] = gpu[i]
      /\ gpu'[Len(gpu) + 1] = e
  BY EndedInt
<1>2. \A i \in DOMAIN gpu' : gpu'[i].frame # 0 => i \in DOMAIN gpu /\ gpu'[i] = gpu[i]
  BY <1>1
<1> QED BY <1>2 DEF FrameInv, InFrame, Stopped

LEMMA FrameEnds ==
  ASSUME TypeOK, StepInv, FrameInv, SignalComplete
  PROVE  FrameInv'
<1> DEFINE n == presentCount + 1
           k == Len(gpu) + 1
<1>1. gpu' = Append(gpu, Complete(n)) /\ UNCHANGED <<complete, app, userCount, presentCount>>
      /\ step' = "push" /\ step = "signal"
  BY DEF SignalComplete, gpuVars, appVars, acqVars
<1>2. Ended = presentCount /\ Ended' = n /\ n # 0 /\ n \in Nat /\ complete < n
  BY <1>1, EndedInt DEF Ended, FrameInv
<1>3. n \in Frames
  BY <1>1, Constants DEF TypeOK, StepInv, Frames
<1>4. Complete(n) \in Submission /\ Complete(n).frame = n
  BY <1>3, Constants DEF Complete, Submission
<1>5. /\ DOMAIN gpu = 1 .. Len(gpu) /\ DOMAIN gpu' = 1 .. k /\ k \in Nat
      /\ \A i \in 1 .. Len(gpu) : gpu'[i] = gpu[i] /\ i \in DOMAIN gpu /\ i < k
      /\ gpu'[k].frame = n /\ k \in DOMAIN gpu'
  BY <1>1, <1>4, EndedInt
<1>6. \A i \in DOMAIN gpu' : i = k \/ (i \in 1 .. Len(gpu) /\ i < k)
  BY <1>5
<1>7. \A i \in 1 .. Len(gpu) : gpu[i].frame # 0 => complete < gpu[i].frame /\ gpu[i].frame < n
  BY <1>2, <1>5, EndedInt DEF FrameInv
<1> HIDE DEF n, k
<1>8. \A i \in DOMAIN gpu' : gpu'[i].frame # 0 => complete' < gpu'[i].frame /\ gpu'[i].frame <= Ended'
  BY <1>1, <1>2, <1>5, <1>6, <1>7, EndedInt
<1>9. \A i, j \in DOMAIN gpu' : i < j /\ gpu'[i].frame # 0 /\ gpu'[j].frame # 0 =>
        gpu'[i].frame < gpu'[j].frame
  <2> SUFFICES ASSUME NEW i \in DOMAIN gpu', NEW j \in DOMAIN gpu', i < j, gpu'[i].frame # 0,
                      gpu'[j].frame # 0
               PROVE  gpu'[i].frame < gpu'[j].frame
    OBVIOUS
  <2>1. i \in 1 .. Len(gpu) /\ gpu'[i] = gpu[i]
    BY <1>5, <1>6
  <2> QED BY <1>5, <1>6, <1>7, <2>1 DEF FrameInv
<1>10. \A i \in DOMAIN gpu' : gpu'[i].frame = 0 => \E j \in DOMAIN gpu' : i < j /\ gpu'[j].frame # 0
  BY <1>2, <1>5, <1>6
<1>11. complete' <= Ended' /\ (Stopped' => complete' >= userCount')
  BY <1>1, <1>2, EndedInt DEF FrameInv, Stopped
<1> QED BY <1>8, <1>9, <1>10, <1>11 DEF FrameInv

LEMMA FrameDrained ==
  ASSUME TypeOK, StepInv, FrameInv, QueueDrained
  PROVE  FrameInv'
<1> DEFINE n == Len(gpu)
<1>1. Lingering \in Nat
  BY LingeringIsNat
<1>3. step = "idle" /\ app = "drains" /\ app' = "completes"
      /\ UNCHANGED <<step, complete, presentCount, userCount>>
  BY DEF QueueDrained, taskVars
<1>4. /\ n \in Nat /\ DOMAIN gpu = 1 .. n /\ DOMAIN gpu' = 1 .. n + Lingering
      /\ \A i \in 1 .. n : gpu'[i] = gpu[i]
  BY DrainedElements, SubmissionTypes
<1>5. \A i \in n + 1 .. n + Lingering : gpu'[i].frame = 0 /\ gpu'[i].of = 0
  BY DrainedElements
<1> HIDE DEF n
<1>6. \A i \in DOMAIN gpu' : \/ i \in DOMAIN gpu /\ gpu'[i] = gpu[i]
                             \/ gpu'[i].frame = 0 /\ gpu'[i].of = 0
  BY <1>1, <1>4, <1>5
<1>7. DOMAIN gpu \subseteq DOMAIN gpu' /\ \A i \in DOMAIN gpu : gpu'[i] = gpu[i]
  BY <1>1, <1>4
<1>8. Leaving' /\ ~Leaving /\ ~Stopped'
  BY <1>3 DEF Leaving, Stopped
<1> QED BY <1>3, <1>6, <1>7, <1>8 DEF FrameInv, Ended

LEMMA FrameFinished ==
  ASSUME TypeOK, FrameInv, Gpu
  PROVE  FrameInv' /\ complete' \in complete .. Ended
<1>1. gpu \in Seq(Submission) /\ gpu # <<>> /\ gpu' = Tail(gpu)
      /\ UNCHANGED <<step, app, presentCount, userCount>>
  BY EndedInt DEF Gpu, taskVars, appVars
<1>2. /\ Len(gpu) \in Nat \ {0} /\ DOMAIN gpu = 1 .. Len(gpu) /\ DOMAIN gpu' = 1 .. Len(gpu) - 1
      /\ Head(gpu) = gpu[1] /\ 1 \in DOMAIN gpu
      /\ \A i \in 1 .. Len(gpu) - 1 : gpu'[i] = gpu[i + 1]
  BY <1>1
<1>3. complete' = IF gpu[1].frame = 0 THEN complete ELSE gpu[1].frame
  BY <1>2 DEF Gpu
<1>4. \A i \in DOMAIN gpu' : i + 1 \in DOMAIN gpu /\ gpu'[i] = gpu[i + 1] /\ 1 < i + 1 /\ i \in Nat
  BY <1>2
<1>5. \A j \in DOMAIN gpu : j = 1 \/ (j - 1 \in DOMAIN gpu' /\ gpu'[j - 1] = gpu[j] /\ j \in Nat)
  BY <1>2
<1>6. complete' \in complete .. Ended
  BY <1>2, <1>3, EndedInt DEF FrameInv
<1>7. Ended' = Ended /\ (InFrame' <=> InFrame) /\ (Leaving' <=> Leaving) /\ (Stopped' <=> Stopped)
  BY <1>1 DEF Ended, InFrame, Leaving, Stopped
<1>8. \A i \in DOMAIN gpu' : gpu'[i].frame # 0 => complete' < gpu'[i].frame /\ gpu'[i].frame <= Ended'
  BY <1>2, <1>3, <1>4, <1>7 DEF FrameInv
<1>9. \A i, j \in DOMAIN gpu' : i < j /\ gpu'[i].frame # 0 /\ gpu'[j].frame # 0 =>
        gpu'[i].frame < gpu'[j].frame
  BY <1>4 DEF FrameInv
<1>10. ASSUME NEW i \in DOMAIN gpu', gpu'[i].frame = 0
       PROVE  \/ InFrame'
              \/ \E j \in DOMAIN gpu' : i < j /\ gpu'[j].frame # 0
              \/ Leaving' /\ gpu'[i].of = 0
  <2>1. i + 1 \in DOMAIN gpu /\ gpu[i + 1] = gpu'[i] /\ i \in Nat
    BY <1>4
  <2>2. CASE \E j \in DOMAIN gpu : i + 1 < j /\ gpu[j].frame # 0
    BY <1>2, <1>5, <2>1, <2>2
  <2>3. CASE InFrame \/ (Leaving /\ gpu[i + 1].of = 0)
    BY <1>7, <2>1, <2>3
  <2> QED BY <1>10, <2>1, <2>2, <2>3 DEF FrameInv, InFrame
<1>11. complete' <= Ended' /\ (Stopped' => complete' >= userCount')
  BY <1>1, <1>6, <1>7, EndedInt DEF FrameInv
<1> QED BY <1>6, <1>8, <1>9, <1>10, <1>11 DEF FrameInv, InFrame

LEMMA FrameStep ==
  ASSUME TypeOK, StepInv, FrameInv, Next
  PROVE  FrameInv'
<1> USE DEF appVars, taskVars, acqVars, gpuVars, workVars
<1> DEFINE Calm == /\ UNCHANGED <<gpu, complete>> /\ Ended' = Ended
                   /\ (InFrame => InFrame') /\ (Leaving => Leaving')
                   /\ (Stopped' => complete >= userCount')
<1>1. Calm => FrameInv'
  BY FrameUnchanged
<1>2. CASE App
  <2>1. CASE QueueDrained
    BY <2>1, FrameDrained
  <2>2. CASE Present \/ ReturnEarly \/ DecideToWait \/ AcquireLatency \/ Resize \/ Reallocate \/ Release
    <3>1. UNCHANGED <<gpu, complete, step, presentCount>> /\ ~Leaving /\ ~Stopped'
      BY <2>2 DEF Leaving, Stopped, Present, ReturnEarly, DecideToWait, AcquireLatency, Resize,
                  Reallocate, Release
    <3> QED BY <1>1, <3>1 DEF Ended, InFrame
  <2>3. CASE StopWorker \/ JoinWorker
    <3>1. UNCHANGED <<gpu, complete, step, presentCount, userCount>> /\ Leaving'
          /\ complete >= userCount
      BY <2>3 DEF Leaving, Stopped, StopWorker, JoinWorker, FrameInv
    <3> QED BY <1>1, <3>1 DEF Ended, InFrame
  <2> QED BY <1>2, <2>1, <2>2, <2>3 DEF App
<1>3. CASE Callback
  <2>1. UNCHANGED <<app, userCount, complete>>
    BY <1>3 DEF Callback, CallbackBegins, CheckSwapchain, NothingToDestroy, DrainWaiter,
         DestroySwapchain, CreateSwapchain, HasImage, NextSemaphore, AcquireImage, QueuePresent,
         SubmitBlit, SignalComplete, PushPresentId, CallbackEnds
  <2>2. (Leaving' <=> Leaving) /\ (Stopped' => complete >= userCount')
    BY <2>1 DEF Leaving, Stopped, FrameInv
  <2>3. CASE SignalComplete
    BY <2>3, FrameEnds
  <2>4. CASE PushPresentId
    BY <1>1, <2>2, <2>4 DEF PushPresentId, Ended, InFrame
  <2>5. CASE CallbackEnds
    <3>1. Ended' = Ended
      BY <2>5, EndedInt DEF CallbackEnds, Ended
    <3> QED BY <1>1, <2>2, <2>5, <3>1 DEF CallbackEnds, InFrame
  <2>6. CASE NextSemaphore
    <3>1. CASE signalled[acquire]
      <4> DEFINE e == Blit(blitCount + 1, 0)
      <4>1. e \in Submission /\ e.frame = 0
        BY Constants DEF TypeOK, Submission, Blit, Frames
      <4>2. gpu' = Append(gpu, e) /\ InFrame' /\ Ended' = Ended
        BY <2>6, <3>1 DEF NextSemaphore, InFrame, Ended
      <4> HIDE DEF e
      <4> QED BY <2>1, <4>1, <4>2, FrameBlit
    <3>2. CASE ~signalled[acquire]
      BY <1>1, <2>2, <2>6, <3>2 DEF NextSemaphore, InFrame, Ended
    <3> QED BY <3>1, <3>2
  <2>7. ASSUME NEW ok \in BOOLEAN, SubmitBlit(ok) PROVE FrameInv'
    <3>1. CASE ok
      <4> DEFINE e == Blit(blitCount + 1, swapchain)
      <4>1. e \in Submission /\ e.frame = 0
        BY Constants DEF TypeOK, Submission, Blit, Frames
      <4>2. gpu' = Append(gpu, e) /\ InFrame' /\ Ended' = Ended
        BY <2>7, <3>1 DEF SubmitBlit, InFrame, Ended
      <4> HIDE DEF e
      <4> QED BY <2>1, <4>1, <4>2, FrameBlit
    <3>2. CASE ~ok
      BY <1>1, <2>2, <2>7, <3>2 DEF SubmitBlit, InFrame, Ended
    <3> QED BY <3>1, <3>2
  <2>8. CASE UNCHANGED <<gpu, presentCount>> /\ InFrame' /\ step \notin {"push", "done"}
    BY <1>1, <2>1, <2>2, <2>8 DEF InFrame, Ended
  <2>9. ASSUME NEW changes \in BOOLEAN, CallbackBegins(changes) PROVE FrameInv'
    BY <2>8, <2>9 DEF CallbackBegins, InFrame
  <2>10. CASE CheckSwapchain \/ DrainWaiter \/ HasImage
    BY <2>8, <2>10 DEF CheckSwapchain, DrainWaiter, HasImage, InFrame
  <2>11. CASE NothingToDestroy \/ DestroySwapchain
    BY <2>8, <2>11 DEF NothingToDestroy, DestroySwapchain, InFrame, StepInv, TypeOK
  <2>12. ASSUME NEW result \in {"ok", "none", "lost"}, CreateSwapchain(result) PROVE FrameInv'
    BY <2>8, <2>12 DEF CreateSwapchain, InFrame
  <2>13. ASSUME NEW result \in {"ok", "suboptimal", "outOfDate", "lost"}, AcquireImage(result)
         PROVE  FrameInv'
    BY <2>8, <2>13 DEF AcquireImage, Failed, InFrame
  <2>14. ASSUME NEW result \in {"ok", "suboptimal", "outOfDate", "lost"}, NEW useId \in BOOLEAN,
                QueuePresent(result, useId)
         PROVE  FrameInv'
    BY <2>8, <2>14 DEF QueuePresent, Failed, InFrame
  <2> QED BY <1>3, <2>3, <2>4, <2>5, <2>6, <2>7, <2>9, <2>10, <2>11, <2>12, <2>13, <2>14 DEF Callback
<1>4. CASE Gpu
  BY <1>4, FrameFinished
<1>5. CASE Worker
  <2>1. UNCHANGED <<gpu, complete, presentCount, userCount, app>>
    BY <1>5 DEF Worker, WorkerSleeps, WorkerTakes, WorkerWaited, WorkerReleases, WorkerPops
  <2>2. step' = step \/ (step = "drainSleeps" /\ step' = "destroy")
    BY <1>5 DEF Worker, WorkerSleeps, WorkerTakes, WorkerWaited, WorkerReleases, WorkerPops
  <2> QED BY <1>1, <2>1, <2>2 DEF Ended, InFrame, Leaving, Stopped, FrameInv
<1> QED BY <1>2, <1>3, <1>4, <1>5 DEF Next

-----------------------------------------------------------------------------
(* The wait thread                                                         *)

Entry == [frame : Frames, id : Nat]

\* What the wait thread releases is the frame after the last one.
LEMMA ReleasedNext ==
  ASSUME TypeOK, StepInv, QueueInv
  PROVE  /\ released <= Pushed /\ Pushed <= userCount
         /\ worker = "waited" => Head(waitQueue).frame = released + 1 /\ released + 1 <= Pushed
<1>1. waitQueue \in Seq(Entry) /\ Len(waitQueue) \in Nat
  BY DEF TypeOK, Entry
<1>2. Pushed <= userCount /\ Pushed \in Nat /\ released \in Nat /\ First \in Nat
  <2>1. step = "done" => presentCount < userCount
    BY DEF StepInv
  <2>2. presentCount <= userCount
    BY DEF TypeOK
  <2>3. Pushed <= userCount
    BY <2>1, <2>2, EndedInt DEF Pushed
  <2> QED BY <2>3, EndedInt DEF First
<1>3. waitQueue # <<>> => Len(waitQueue) >= 1 /\ 1 \in DOMAIN waitQueue /\ Head(waitQueue) = waitQueue[1]
  BY <1>1
<1>4. CASE worker \in {"waited", "pops"}
  <2>1. ~(Stopped /\ 1 = Len(waitQueue))
    BY <1>3, <1>4 DEF QueueInv
  <2>2. Head(waitQueue).frame = First /\ First <= Pushed
    BY <1>1, <1>2, <1>3, <1>4, <2>1 DEF QueueInv
  <2> QED BY <1>2, <1>4, <2>2 DEF First
<1>5. CASE worker \notin {"waited", "pops"}
  <2>1. First = released + 1
    BY <1>5 DEF First
  <2>2. Len(waitQueue) = Pushed - First + 1 + (IF Stopped THEN 1 ELSE 0) /\ (Stopped => waitQueue # <<>>)
    BY DEF QueueInv
  <2>3. Pushed - First + 1 >= 0
    BY <1>1, <1>2, <1>3, <2>2
  <2> QED BY <1>2, <1>5, <2>1, <2>3
<1> QED BY <1>4, <1>5

LEMMA QueueUnchanged ==
  ASSUME QueueInv, UNCHANGED <<waitQueue, worker, released>>, Pushed' = Pushed, Stopped' <=> Stopped,
         \A i \in DOMAIN waitQueue : waitQueue[i].id \in {0, swapchain'}
  PROVE  QueueInv'
BY DEF QueueInv, First

LEMMA QueuePushed ==
  ASSUME TypeOK, StepInv, QueueInv, PushPresentId
  PROVE  QueueInv'
<1> DEFINE e == [frame |-> presentCount + 1, id |-> IF idValid THEN swapchain ELSE 0]
           n == Len(waitQueue)
<1>1. /\ waitQueue' = Append(waitQueue, e) /\ UNCHANGED <<released, swapchain, app>>
      /\ worker' = IF worker = "asleep" THEN "top" ELSE worker
      /\ Pushed = presentCount /\ Pushed' = presentCount + 1 /\ step = "push"
  BY EndedInt DEF PushPresentId, appVars, Pushed
<1>2. presentCount + 1 \in Frames /\ presentCount \in Nat
  BY <1>1, Constants DEF TypeOK, StepInv, Frames
<1>3. e \in Entry /\ e.frame = presentCount + 1 /\ e.id \in {0, swapchain}
  BY <1>2 DEF TypeOK, Entry
<1>4. waitQueue \in Seq(Entry) /\ released \in Nat
  BY EndedInt DEF TypeOK, Entry
<1> HIDE DEF e
<1>5. /\ n \in Nat /\ DOMAIN waitQueue = 1 .. n /\ DOMAIN waitQueue' = 1 .. n + 1
      /\ Len(waitQueue') = n + 1 /\ waitQueue' # <<>>
      /\ \A i \in 1 .. n : waitQueue'[i] = waitQueue[i]
      /\ waitQueue'[n + 1] = e
      /\ waitQueue # <<>> => Head(waitQueue') = Head(waitQueue)
  BY <1>1, <1>3, <1>4
<1>6. ~Stopped /\ ~Stopped' /\ First' = First /\ First \in Nat
  BY <1>1, <1>4 DEF StepInv, Leaving, Stopped, First
<1>7. n = presentCount - First + 1
  BY <1>1, <1>2, <1>6 DEF QueueInv
<1>8. Len(waitQueue') = Pushed' - First' + 1
  BY <1>1, <1>2, <1>5, <1>6, <1>7
<1>9. \A i \in DOMAIN waitQueue' :
        waitQueue'[i].frame = First' - 1 + i /\ waitQueue'[i].id \in {0, swapchain'}
  <2> SUFFICES ASSUME NEW i \in DOMAIN waitQueue'
               PROVE  waitQueue'[i].frame = First' - 1 + i /\ waitQueue'[i].id \in {0, swapchain'}
    OBVIOUS
  <2>1. CASE i = n + 1
    BY <1>1, <1>2, <1>3, <1>5, <1>6, <1>7, <2>1
  <2>2. CASE i # n + 1
    <3>1. i \in 1 .. n
      BY <1>5, <2>2
    <3> QED BY <1>1, <1>5, <1>6, <3>1 DEF QueueInv
  <2> QED BY <2>1, <2>2
<1>10. /\ worker' \in {"waits", "waited", "pops"} => waitQueue' # <<>> /\ Head(waitQueue') # Sentinel
       /\ worker' = "exited" => waitQueue' # <<>> /\ Head(waitQueue') = Sentinel
  BY <1>1, <1>5 DEF QueueInv
<1> QED BY <1>6, <1>8, <1>9, <1>10 DEF QueueInv

LEMMA QueueStopped ==
  ASSUME TypeOK, QueueInv, StopWorker
  PROVE  QueueInv'
<1> DEFINE n == Len(waitQueue)
<1>1. /\ waitQueue' = Append(waitQueue, Sentinel) /\ UNCHANGED <<released, swapchain, step, presentCount>>
      /\ worker' = IF worker = "asleep" THEN "top" ELSE worker
      /\ Stopped' /\ ~Stopped
  BY DEF StopWorker, workVars, taskVars, Stopped
<1>2. Sentinel \in Entry /\ Sentinel.id = 0
  BY Constants DEF Sentinel, Entry, Frames
<1>3. waitQueue \in Seq(Entry) /\ released \in Nat /\ Pushed \in Nat /\ First \in Nat
  BY EndedInt DEF TypeOK, Entry, First
<1>4. /\ n \in Nat /\ DOMAIN waitQueue = 1 .. n /\ DOMAIN waitQueue' = 1 .. n + 1
      /\ Len(waitQueue') = n + 1 /\ waitQueue' # <<>>
      /\ \A i \in 1 .. n : waitQueue'[i] = waitQueue[i]
      /\ waitQueue'[n + 1] = Sentinel
      /\ waitQueue # <<>> => Head(waitQueue') = Head(waitQueue)
  BY <1>1, <1>2, <1>3
<1>5. First' = First /\ Pushed' = Pushed
  BY <1>1 DEF First, Pushed
<1>6. \A i \in DOMAIN waitQueue' :
        /\ IF i = Len(waitQueue') THEN waitQueue'[i] = Sentinel
                                  ELSE waitQueue'[i].frame = First' - 1 + i
        /\ waitQueue'[i].id \in {0, swapchain'}
  BY <1>1, <1>2, <1>4, <1>5 DEF QueueInv
<1>7. /\ worker' \in {"waits", "waited", "pops"} => waitQueue' # <<>> /\ Head(waitQueue') # Sentinel
      /\ worker' = "exited" => waitQueue' # <<>> /\ Head(waitQueue') = Sentinel
  BY <1>1, <1>4 DEF QueueInv
<1>8. Len(waitQueue') = Pushed' - First' + 1 + 1
  BY <1>1, <1>3, <1>4, <1>5 DEF QueueInv
<1> QED BY <1>1, <1>6, <1>7, <1>8 DEF QueueInv

LEMMA QueuePopped ==
  ASSUME TypeOK, QueueInv, WorkerPops
  PROVE  QueueInv'
<1> DEFINE n == Len(waitQueue)
<1>1. /\ waitQueue' = Tail(waitQueue) /\ UNCHANGED <<released, swapchain, presentCount, app>>
      /\ worker = "pops" /\ worker' = "top" /\ waitQueue # <<>> /\ Head(waitQueue) # Sentinel
  BY DEF WorkerPops, appVars, QueueInv
<1>2. Pushed' = Pushed /\ (Stopped' <=> Stopped)
  BY <1>1 DEF Pushed, Stopped, WorkerPops
<1>3. First = released /\ First' = released + 1 /\ released \in Nat /\ Pushed \in Nat
  BY <1>1, EndedInt DEF First
<1>4. waitQueue \in Seq(Entry)
  BY DEF TypeOK, Entry
<1>5. /\ n \in Nat \ {0} /\ DOMAIN waitQueue = 1 .. n /\ DOMAIN waitQueue' = 1 .. n - 1
      /\ Len(waitQueue') = n - 1 /\ Head(waitQueue) = waitQueue[1]
      /\ \A i \in 1 .. n - 1 : waitQueue'[i] = waitQueue[i + 1]
  BY <1>1, <1>4
<1>6. Len(waitQueue') = Pushed' - First' + 1 + (IF Stopped' THEN 1 ELSE 0)
  BY <1>2, <1>3, <1>5 DEF QueueInv
<1>7. ASSUME NEW i \in DOMAIN waitQueue'
      PROVE  /\ IF Stopped' /\ i = Len(waitQueue') THEN waitQueue'[i] = Sentinel
                                                   ELSE waitQueue'[i].frame = First' - 1 + i
             /\ waitQueue'[i].id \in {0, swapchain'}
  <2>1. i \in Nat /\ i + 1 \in DOMAIN waitQueue /\ waitQueue'[i] = waitQueue[i + 1]
        /\ (i = Len(waitQueue') <=> i + 1 = n)
    BY <1>5
  <2>2. First - 1 + (i + 1) = First' - 1 + i
    BY <1>3, <2>1
  <2> QED BY <1>1, <1>2, <2>1, <2>2 DEF QueueInv
<1>8. Stopped' => waitQueue' # <<>>
  <2>1. Stopped => n # 1
    BY <1>1, <1>5 DEF QueueInv
  <2> QED BY <1>2, <1>5, <2>1
<1> QED BY <1>1, <1>6, <1>7, <1>8 DEF QueueInv

LEMMA QueueStep ==
  ASSUME TypeOK, StepInv, QueueInv, Next
  PROVE  QueueInv'
<1> USE DEF appVars, taskVars, acqVars, gpuVars, workVars
<1>1. \A i \in DOMAIN waitQueue : waitQueue[i].id \in {0, swapchain}
  BY DEF QueueInv
<1>2. CASE App
  <2>1. CASE StopWorker
    BY <2>1, QueueStopped
  <2>2. CASE ~StopWorker
    <3>1. UNCHANGED <<waitQueue, worker, released, swapchain, step, presentCount>>
          /\ (Stopped' <=> Stopped)
      BY <1>2, <2>2 DEF App, Present, ReturnEarly, DecideToWait, AcquireLatency, Resize,
                        Reallocate, Release, QueueDrained, JoinWorker, Stopped
    <3> QED BY <1>1, <3>1, QueueUnchanged DEF Pushed
  <2> QED BY <2>1, <2>2
<1>3. CASE Callback
  <2>1. CASE PushPresentId
    BY <2>1, QueuePushed
  <2>2. CASE ~PushPresentId
    <3>1. UNCHANGED <<waitQueue, worker, released, app>>
      BY <1>3, <2>2 DEF Callback, CallbackBegins, CheckSwapchain, NothingToDestroy, DrainWaiter,
           DestroySwapchain, CreateSwapchain, HasImage, NextSemaphore, AcquireImage, QueuePresent,
           SubmitBlit, SignalComplete, CallbackEnds
    <3>2. UNCHANGED swapchain \/ waitQueue = <<>> \/ swapchain = 0
      BY <1>3, <2>2 DEF Callback, CallbackBegins, CheckSwapchain, NothingToDestroy, DrainWaiter,
           DestroySwapchain, CreateSwapchain, HasImage, NextSemaphore, AcquireImage, QueuePresent,
           SubmitBlit, SignalComplete, CallbackEnds, StepInv
    <3>3. \A i \in DOMAIN waitQueue : waitQueue[i].id \in {0, swapchain'}
      BY <1>1, <3>2
    <3>4. Pushed' = Pushed
      <4>1. CASE CallbackEnds
        BY <4>1, EndedInt DEF Pushed, CallbackEnds
      <4>2. CASE step \in {"destroy"} /\ (NothingToDestroy \/ DestroySwapchain)
        BY <4>2 DEF Pushed, NothingToDestroy, DestroySwapchain, StepInv, TypeOK
      <4>3. CASE ~CallbackEnds /\ ~NothingToDestroy /\ ~DestroySwapchain
        <5>1. UNCHANGED presentCount /\ step # "done" /\ step' # "done"
          BY <1>3, <2>2, <4>3 DEF Callback, CallbackBegins, CheckSwapchain, DrainWaiter,
               CreateSwapchain, HasImage, NextSemaphore, AcquireImage, QueuePresent, Failed,
               SubmitBlit, SignalComplete
        <5> QED BY <5>1 DEF Pushed
      <4> QED BY <4>1, <4>2, <4>3 DEF NothingToDestroy, DestroySwapchain
    <3> QED BY <3>1, <3>3, <3>4, QueueUnchanged DEF Stopped
  <2> QED BY <2>1, <2>2
<1>4. CASE Gpu
  BY <1>1, <1>4, QueueUnchanged DEF Gpu, Pushed, Stopped
<1>5. CASE Worker
  <2>1. CASE WorkerPops
    BY <2>1, QueuePopped
  <2>2. CASE WorkerReleases
    <3>1. UNCHANGED <<waitQueue, swapchain, app, step, presentCount>> /\ worker = "waited"
          /\ worker' = "pops" /\ released' = Head(waitQueue).frame
      BY <2>2 DEF WorkerReleases
    <3>2. First = released + 1 /\ First' = released + 1 /\ Pushed' = Pushed /\ (Stopped' <=> Stopped)
      BY <3>1, ReleasedNext DEF First, Pushed, Stopped
    <3> QED BY <3>1, <3>2 DEF QueueInv
  <2>3. CASE WorkerSleeps \/ WorkerTakes \/ WorkerWaited
    <3>1. UNCHANGED <<waitQueue, swapchain, app, step, presentCount, released>>
          /\ worker # "pops" /\ worker' # "pops"
      BY <2>3 DEF WorkerSleeps, WorkerTakes, WorkerWaited
    <3>2. First' = First /\ Pushed' = Pushed /\ (Stopped' <=> Stopped)
      BY <3>1 DEF First, Pushed, Stopped
    <3>3. /\ worker' \in {"waits", "waited"} => waitQueue # <<>> /\ Head(waitQueue) # Sentinel
          /\ worker' = "exited" => waitQueue # <<>> /\ Head(waitQueue) = Sentinel
      BY <2>3 DEF WorkerSleeps, WorkerTakes, WorkerWaited, QueueInv
    <3> QED BY <3>1, <3>2, <3>3 DEF QueueInv
  <2> QED BY <1>5, <2>1, <2>2, <2>3 DEF Worker
<1> QED BY <1>2, <1>3, <1>4, <1>5 DEF Next

LEMMA WakeupStep ==
  ASSUME TypeOK, QueueInv, NoMissedWakeup, Next
  PROVE  NoMissedWakeup'
<1> USE DEF NoMissedWakeup, appVars, taskVars, acqVars, gpuVars, workVars
<1>1. waitQueue \in Seq(Entry)
  BY DEF TypeOK, Entry
<1>2. CASE StopWorker
  <2>1. Append(waitQueue, Sentinel) # <<>>
    BY <1>1
  <2> QED BY <1>2, <2>1 DEF StopWorker
<1>3. CASE PushPresentId
  BY <1>3 DEF PushPresentId
<1>4. CASE WorkerPops
  <2>1. Len(waitQueue) # 1 => waitQueue # <<>> /\ Tail(waitQueue) # <<>>
    <3>1. waitQueue # <<>>
      BY <1>4 DEF WorkerPops, QueueInv
    <3>2. Len(waitQueue) \in Nat \ {0} /\ Len(Tail(waitQueue)) = Len(waitQueue) - 1
      BY <1>1, <3>1
    <3> QED BY <3>1, <3>2
  <2> QED BY <1>4, <2>1 DEF WorkerPops
<1>5. CASE Worker /\ ~WorkerPops
  BY <1>5 DEF Worker, WorkerSleeps, WorkerTakes, WorkerWaited, WorkerReleases
<1>6. CASE App /\ ~StopWorker
  BY <1>6 DEF App, Present, ReturnEarly, DecideToWait, AcquireLatency, Resize, Reallocate,
              Release, QueueDrained, JoinWorker
<1>7. CASE Gpu
  BY <1>7 DEF Gpu
<1>8. CASE Callback /\ ~PushPresentId
  <2>1. CASE NothingToDestroy \/ DestroySwapchain
    BY <2>1 DEF NothingToDestroy, DestroySwapchain, TypeOK
  <2>2. CASE ~NothingToDestroy /\ ~DestroySwapchain
    BY <1>8, <2>2 DEF Callback, CallbackBegins, CheckSwapchain, DrainWaiter, CreateSwapchain,
         HasImage, NextSemaphore, AcquireImage, QueuePresent, Failed, SubmitBlit, SignalComplete,
         CallbackEnds
  <2> QED BY <2>1, <2>2
<1> QED BY <1>2, <1>3, <1>4, <1>5, <1>6, <1>7, <1>8 DEF Next

-----------------------------------------------------------------------------
(* The application and the latency semaphore                               *)

LEMMA LatencyStep ==
  ASSUME TypeOK, StepInv, QueueInv, LatencyInv, Next
  PROVE  LatencyInv'
<1> USE DEF LatencyInv, appVars, taskVars, acqVars, gpuVars, workVars
<1>1. userCount \in Nat /\ waitCounts \in Nat /\ latencySem \in Nat /\ released \in Nat
      /\ Latency \in Nat
  BY Constants, EndedInt DEF TypeOK, Frames
<1>2. CASE Present
  BY <1>1, <1>2 DEF Present
<1>3. CASE ReturnEarly
  BY <1>1, <1>3 DEF ReturnEarly
<1>4. CASE DecideToWait
  BY <1>4 DEF DecideToWait
<1>5. CASE AcquireLatency
  BY <1>1, <1>5 DEF AcquireLatency
<1>6. CASE WorkerReleases
  BY <1>1, <1>6, ReleasedNext DEF WorkerReleases
<1>7. CASE UNCHANGED <<userCount, waitCounts, latencySem, released>>
           /\ (app' \in {"latency", "waits"} => app \in {"latency", "waits"})
  BY <1>7
<1>8. CASE App /\ ~Present /\ ~ReturnEarly /\ ~DecideToWait /\ ~AcquireLatency
  <2>1. UNCHANGED <<userCount, waitCounts, latencySem, released>> /\ app' \notin {"latency", "waits"}
    BY <1>8 DEF App, Resize, Reallocate, Release, QueueDrained, StopWorker, JoinWorker
  <2> QED BY <1>7, <2>1
<1>9. CASE Callback
  <2>1. UNCHANGED <<userCount, waitCounts, latencySem, released, app>>
    BY <1>9 DEF Callback, CallbackBegins, CheckSwapchain, NothingToDestroy, DrainWaiter,
         DestroySwapchain, CreateSwapchain, HasImage, NextSemaphore, AcquireImage, QueuePresent,
         SubmitBlit, SignalComplete, PushPresentId, CallbackEnds
  <2> QED BY <1>7, <2>1
<1>10. CASE Gpu \/ (Worker /\ ~WorkerReleases)
  <2>1. UNCHANGED <<userCount, waitCounts, latencySem, released, app>>
    BY <1>10 DEF Gpu, Worker, WorkerSleeps, WorkerTakes, WorkerWaited, WorkerPops
  <2> QED BY <1>7, <2>1
<1> QED BY <1>2, <1>3, <1>4, <1>5, <1>6, <1>8, <1>9, <1>10 DEF Next

LEMMA RingStep ==
  ASSUME TypeOK, RingInv, Next
  PROVE  RingInv'
<1> USE DEF appVars, taskVars, acqVars, gpuVars, workVars
<1>1. userCount \in Nat /\ ring \in [0 .. Ring - 1 -> Frames] /\ Ring \in Nat \ {0}
  BY Constants, EndedInt DEF TypeOK
<1>2. CASE Present
  <2> DEFINE n == userCount + 1
  <2>1. userCount' = n /\ ring' = [ring EXCEPT ![Slot(n)] = n] /\ n \in Nat
    BY <1>1, <1>2 DEF Present
  <2>2. SUFFICES ASSUME NEW m \in 1 .. n
                 PROVE  /\ n < m + Ring => ring'[Slot(m)] = m
                        /\ ring'[Slot(m)] \in m .. n /\ Slot(ring'[Slot(m)]) = Slot(m)
    BY <2>1 DEF RingInv, Slot
  <2>3. Slot(m) \in 0 .. Ring - 1 /\ Slot(n) \in 0 .. Ring - 1
    BY <2>1, SlotInRing
  <2>4. CASE Slot(m) = Slot(n)
    <3>1. ring'[Slot(m)] = n
      BY <1>1, <2>1, <2>3, <2>4
    <3>2. n < m + Ring => m = n
      BY <2>1, <2>4, SlotsApart
    <3> QED BY <2>1, <2>4, <3>1, <3>2
  <2>5. CASE Slot(m) # Slot(n)
    <3>1. m \in 1 .. userCount /\ ring'[Slot(m)] = ring[Slot(m)]
      BY <1>1, <2>1, <2>3, <2>5
    <3>2. /\ userCount < m + Ring => ring[Slot(m)] = m
          /\ ring[Slot(m)] \in m .. userCount /\ Slot(ring[Slot(m)]) = Slot(m)
      BY <3>1 DEF RingInv
    <3> QED BY <1>1, <2>1, <3>1, <3>2
  <2> QED BY <2>4, <2>5
<1>3. CASE UNCHANGED <<userCount, ring>>
  BY <1>3 DEF RingInv
<1>4. CASE App /\ ~Present
  BY <1>3, <1>4 DEF App, ReturnEarly, DecideToWait, AcquireLatency, Resize, Reallocate,
                    Release, QueueDrained, StopWorker, JoinWorker
<1>5. CASE Callback
  BY <1>3, <1>5 DEF Callback, CallbackBegins, CheckSwapchain, NothingToDestroy, DrainWaiter,
         DestroySwapchain, CreateSwapchain, HasImage, NextSemaphore, AcquireImage, QueuePresent,
         SubmitBlit, SignalComplete, PushPresentId, CallbackEnds
<1>6. CASE Gpu \/ Worker
  BY <1>3, <1>6 DEF Gpu, Worker, WorkerSleeps, WorkerTakes, WorkerWaited, WorkerReleases, WorkerPops
<1> QED BY <1>2, <1>4, <1>5, <1>6 DEF Next

-----------------------------------------------------------------------------
(* Types                                                                   *)

AppType ==
  /\ app \in {"runs", "latency", "waits", "resizes", "drains", "completes", "joins", "gone"}
  /\ userCount \in Frames /\ resizes \in 0 .. MaxResizes /\ waitCounts \in Frames
  /\ latencySem \in Nat /\ ring \in [0 .. Ring - 1 -> Frames]
  /\ complete \in 0 .. userCount /\ released \in 0 .. userCount /\ presentCount \in 0 .. userCount

TaskType ==
  /\ step \in Steps /\ next \in {"none", "check", "create", "signal"}
  /\ request \in Frames
  /\ created \in Nat /\ swapchain \in {0, created}
  /\ retry \in 0 .. MaxRetries /\ troubles \in 0 .. MaxTroubles
  /\ {force, lost, image, idValid, skip} \subseteq BOOLEAN

GpuType ==
  /\ acquire \in 0 .. Ring - 1 /\ blitCount \in Nat
  /\ signalled \in [0 .. Ring - 1 -> BOOLEAN]
  /\ consumed \in [0 .. Ring - 1 -> 0 .. blitCount]
  /\ shown \in 0 .. blitCount /\ blitDone \in 0 .. blitCount
  /\ gpu \in Seq(Submission)

WorkerType ==
  /\ waitQueue \in Seq(Entry)
  /\ worker \in {"top", "asleep", "waits", "waited", "pops", "exited"}

LEMMA TypeParts == LatencyInv /\ AppType /\ TaskType /\ GpuType /\ WorkerType => TypeOK
<1> SUFFICES ASSUME LatencyInv, AppType, TaskType, GpuType, WorkerType PROVE TypeOK
  OBVIOUS
<1>1. userCount \in Nat /\ released \in Nat /\ waitCounts \in Nat /\ latencySem \in Nat
  BY Constants DEF AppType, Frames
<1>2. latencySem \in 0 .. Latency - 1 + released
  BY <1>1, Constants DEF LatencyInv
<1> QED BY <1>2, Zenon DEF TypeOK, AppType, TaskType, GpuType, WorkerType, Submission, Entry

LEMMA AppTypeStep ==
  ASSUME TypeOK, StepInv, FrameInv, QueueInv, LatencyInv, Next
  PROVE  AppType'
<1> USE DEF appVars, taskVars, acqVars, gpuVars, workVars
<1>1. /\ userCount \in Nat /\ userCount <= MaxPresents /\ waitCounts \in Nat /\ waitCounts <= userCount
      /\ latencySem \in Nat /\ MaxPresents \in Nat
      /\ complete \in Nat /\ complete <= userCount /\ released \in Nat /\ released <= userCount
      /\ presentCount \in Nat /\ presentCount <= userCount
      /\ resizes \in 0 .. MaxResizes /\ MaxResizes \in Nat
  BY Constants, EndedInt DEF TypeOK, Frames, LatencyInv
<1>2. /\ app \in {"runs", "latency", "waits", "resizes", "drains", "completes", "joins", "gone"}
      /\ ring \in [0 .. Ring - 1 -> Frames]
  BY DEF TypeOK
<1> USE DEF AppType, Frames
<1>3. CASE Present
  <2>1. userCount + 1 \in Frames /\ userCount + 1 \in Nat
    BY <1>1, <1>3 DEF Present
  <2>2. Slot(userCount + 1) \in 0 .. Ring - 1
    BY <2>1, SlotInRing
  <2>3. ring' = [ring EXCEPT ![Slot(userCount + 1)] = userCount + 1]
    BY <1>3 DEF Present
  <2>4. ring' \in [0 .. Ring - 1 -> Frames]
    BY <1>2, <2>1, <2>2, <2>3
  <2> QED BY <1>1, <1>3, <2>4 DEF Present
<1>4. CASE ReturnEarly
  BY <1>1, <1>2, <1>4 DEF ReturnEarly
<1>5. CASE AcquireLatency
  BY <1>1, <1>2, <1>5 DEF AcquireLatency, LatencyInv
<1>6. CASE Resize
  BY <1>1, <1>2, <1>6 DEF Resize
<1>7. CASE UNCHANGED <<userCount, resizes, waitCounts, latencySem, ring, complete, released, presentCount>>
           /\ app' \in {"runs", "latency", "waits", "resizes", "drains", "completes", "joins", "gone"}
  BY <1>1, <1>2, <1>7
<1>8. CASE App /\ ~Present /\ ~ReturnEarly /\ ~AcquireLatency /\ ~Resize
  <2>1. UNCHANGED <<userCount, resizes, waitCounts, latencySem, ring, complete, released, presentCount>>
        /\ app' \in {"runs", "waits", "drains", "completes", "joins", "gone"}
    BY <1>8 DEF App, DecideToWait, Reallocate, Release, QueueDrained, StopWorker, JoinWorker
  <2> QED BY <1>7, <2>1
<1>9. CASE CallbackEnds
  <2>1. UNCHANGED <<userCount, resizes, waitCounts, latencySem, ring, complete, released, app>>
        /\ presentCount' = presentCount + 1 /\ presentCount < userCount
    BY <1>9 DEF CallbackEnds, StepInv
  <2> QED BY <1>1, <1>2, <2>1
<1>10. CASE Callback /\ ~CallbackEnds
  <2>1. UNCHANGED <<userCount, resizes, waitCounts, latencySem, ring, complete, released, presentCount, app>>
    BY <1>10 DEF Callback, CallbackBegins, CheckSwapchain, NothingToDestroy, DrainWaiter,
         DestroySwapchain, CreateSwapchain, HasImage, NextSemaphore, AcquireImage, QueuePresent,
         SubmitBlit, SignalComplete, PushPresentId
  <2> QED BY <1>2, <1>7, <2>1
<1>11. CASE Gpu
  <2>1. complete' \in complete .. Ended /\ Ended \in Nat /\ Ended <= userCount
    BY <1>1, <1>11, EndedInt, FrameFinished DEF Ended, StepInv
  <2>2. UNCHANGED <<userCount, resizes, waitCounts, latencySem, ring, released, presentCount, app>>
    BY <1>11 DEF Gpu
  <2> QED BY <1>1, <1>2, <2>1, <2>2
<1>12. CASE WorkerReleases
  <2>1. released' = released + 1 /\ released + 1 <= userCount
    BY <1>1, <1>12, EndedInt, ReleasedNext DEF WorkerReleases
  <2>2. UNCHANGED <<userCount, resizes, waitCounts, ring, complete, presentCount, app>>
        /\ latencySem' = latencySem + 1
    BY <1>12 DEF WorkerReleases
  <2> QED BY <1>1, <1>2, <2>1, <2>2
<1>13. CASE Worker /\ ~WorkerReleases
  <2>1. UNCHANGED <<userCount, resizes, waitCounts, latencySem, ring, complete, released, presentCount, app>>
    BY <1>13 DEF Worker, WorkerSleeps, WorkerTakes, WorkerWaited, WorkerPops
  <2> QED BY <1>2, <1>7, <2>1
<1> QED BY <1>3, <1>4, <1>5, <1>6, <1>8, <1>9, <1>10, <1>11, <1>12, <1>13 DEF Next

LEMMA TaskTypeStep ==
  ASSUME TypeOK, StepInv, Next
  PROVE  TaskType'
<1> USE DEF TaskType, appVars, taskVars, acqVars, gpuVars, workVars
<1>1. TaskType
  BY Zenon DEF TypeOK
<1>2. MaxRetries \in Nat /\ MaxTroubles \in Nat
  BY Constants
<1>3. CASE App
  <2>1. CASE Reallocate
    BY <1>1, <2>1 DEF Reallocate
  <2>2. CASE ~Reallocate
    <3>1. UNCHANGED <<taskVars, skip>>
      BY <1>3, <2>2 DEF App, Present, ReturnEarly, DecideToWait, AcquireLatency, Resize,
                        Release, QueueDrained, StopWorker, JoinWorker
    <3> QED BY <1>1, <3>1
  <2> QED BY <2>1, <2>2
<1>4. CASE Callback
  <2>1. ASSUME NEW changes \in BOOLEAN, CallbackBegins(changes) PROVE TaskType'
    <3>1. presentCount + 1 \in Nat
      BY EndedInt
    <3>2. Slot(presentCount + 1) \in 0 .. Ring - 1
      BY <3>1, SlotInRing
    <3>3. request' \in Frames
      BY <2>1, <3>2 DEF CallbackBegins, TypeOK
    <3>4. troubles' \in 0 .. MaxTroubles
      BY <1>1, <1>2, <2>1 DEF CallbackBegins, MayFail
    <3>5. force' \in BOOLEAN /\ idValid' \in BOOLEAN
      BY <2>1, Zenon DEF CallbackBegins
    <3>6. step' \in Steps /\ retry' \in 0 .. MaxRetries
          /\ UNCHANGED <<next, created, swapchain, lost, image, skip>>
      BY <1>2, <2>1 DEF CallbackBegins, Steps
    <3> QED BY <1>1, <3>3, <3>4, <3>5, <3>6
  <2>2. CASE CheckSwapchain
    BY <1>1, <2>2 DEF CheckSwapchain, Steps
  <2>3. CASE NothingToDestroy
    BY <1>1, <2>3 DEF NothingToDestroy, Steps, StepInv
  <2>4. CASE DrainWaiter
    BY <1>1, <2>4 DEF DrainWaiter, Steps
  <2>5. CASE DestroySwapchain
    BY <1>1, <2>5 DEF DestroySwapchain, Steps, StepInv
  <2>6. ASSUME NEW result \in {"ok", "none", "lost"}, CreateSwapchain(result) PROVE TaskType'
    <3>1. troubles' \in 0 .. MaxTroubles
      BY <1>1, <1>2, <2>6 DEF CreateSwapchain, MayFail
    <3>2. created' \in Nat /\ swapchain' \in {0, created'}
      BY <1>1, <2>6 DEF CreateSwapchain, StepInv
    <3> QED BY <1>1, <2>6, <3>1, <3>2 DEF CreateSwapchain, Steps
  <2>7. CASE HasImage
    BY <1>1, <2>7 DEF HasImage, Steps
  <2>8. CASE NextSemaphore
    BY <1>1, <2>8 DEF NextSemaphore, Steps
  <2>9. ASSUME NEW result \in {"ok", "suboptimal", "outOfDate", "lost"}, AcquireImage(result)
        PROVE  TaskType'
    <3>1. troubles' \in 0 .. MaxTroubles
      BY <1>1, <1>2, <2>9 DEF AcquireImage, MayFail
    <3>2. retry' \in 0 .. MaxRetries
      BY <1>1, <1>2, <2>9 DEF AcquireImage, Failed
    <3> QED BY <1>1, <2>9, <3>1, <3>2 DEF AcquireImage, Failed, Steps
  <2>10. ASSUME NEW result \in {"ok", "suboptimal", "outOfDate", "lost"}, NEW useId \in BOOLEAN,
                QueuePresent(result, useId)
         PROVE  TaskType'
    <3>1. troubles' \in 0 .. MaxTroubles
      BY <1>1, <1>2, <2>10 DEF QueuePresent, MayFail
    <3>2. retry' \in 0 .. MaxRetries
      BY <1>1, <1>2, <2>10 DEF QueuePresent, Failed
    <3> QED BY <1>1, <2>10, <3>1, <3>2 DEF QueuePresent, Failed, Steps
  <2>11. ASSUME NEW ok \in BOOLEAN, SubmitBlit(ok) PROVE TaskType'
    <3>1. troubles' \in 0 .. MaxTroubles
      BY <1>1, <1>2, <2>11 DEF SubmitBlit, MayFail
    <3> QED BY <1>1, <2>11, <3>1 DEF SubmitBlit, Steps
  <2>12. CASE SignalComplete \/ PushPresentId \/ CallbackEnds
    BY <1>1, <2>12 DEF SignalComplete, PushPresentId, CallbackEnds, Steps
  <2> QED BY <1>4, <2>1, <2>2, <2>3, <2>4, <2>5, <2>6, <2>7, <2>8, <2>9, <2>10, <2>11, <2>12 DEF Callback
<1>5. CASE Gpu
  BY <1>1, <1>5 DEF Gpu
<1>6. CASE Worker
  BY <1>1, <1>6 DEF Worker, WorkerSleeps, WorkerTakes, WorkerWaited, WorkerReleases, WorkerPops, Steps
<1> QED BY <1>3, <1>4, <1>5, <1>6 DEF Next

LEMMA GpuTypeStep ==
  ASSUME TypeOK, StepInv, VkQueueInv, Next
  PROVE  GpuType'
<1> USE DEF GpuType, appVars, taskVars, acqVars, gpuVars, workVars
<1>1. GpuType
  BY Zenon DEF TypeOK, Submission
<1>2. \A k \in Nat : blitCount + k \in Nat /\ 0 .. blitCount \subseteq 0 .. blitCount + k
  BY <1>1
<1>3. CASE QueueDrained
  <2>1. gpu' \in Seq(Submission) /\ blitCount' \in Nat /\ blitCount' >= blitCount
        /\ UNCHANGED <<acquire, signalled, consumed, shown, blitDone>>
    BY <1>1, <1>3, BlitDrained, LingeringIsNat DEF QueueDrained, VkQueueInv
  <2> QED BY <1>1, <2>1
<1>4. CASE NextSemaphore
  <2>1. Blit(blitCount + 1, 0) \in Submission
    BY <1>1, Constants DEF Submission, Blit, Frames
  <2>2. acquire' \in 0 .. Ring - 1 /\ UNCHANGED <<shown, blitDone>>
    BY <1>1, <1>4, Constants DEF NextSemaphore
  <2>3. blitCount' \in Nat /\ blitCount' >= blitCount
    BY <1>1, <1>4 DEF NextSemaphore
  <2>4. gpu' \in Seq(Submission) /\ signalled' \in [0 .. Ring - 1 -> BOOLEAN]
    <3>1. /\ gpu' \in {gpu, Append(gpu, Blit(blitCount + 1, 0))}
          /\ signalled' \in {signalled, [signalled EXCEPT ![acquire] = FALSE]}
      BY <1>4 DEF NextSemaphore
    <3>2. gpu' \in Seq(Submission)
      BY <1>1, <2>1, <3>1
    <3>3. signalled' \in [0 .. Ring - 1 -> BOOLEAN]
      BY <1>1, <3>1
    <3> QED BY <3>2, <3>3
  <2>5. consumed' \in [0 .. Ring - 1 -> 0 .. blitCount']
    BY <1>1, <1>4, <2>3 DEF NextSemaphore
  <2> QED BY <1>1, <2>2, <2>3, <2>4, <2>5
<1>5. ASSUME NEW result \in {"ok", "suboptimal", "outOfDate", "lost"}, AcquireImage(result)
      PROVE  GpuType'
  BY <1>1, <1>5 DEF AcquireImage
<1>6. ASSUME NEW ok \in BOOLEAN, SubmitBlit(ok) PROVE GpuType'
  <2>1. Blit(blitCount + 1, swapchain) \in Submission
    BY <1>1, Constants DEF TypeOK, Submission, Blit, Frames
  <2>2. UNCHANGED <<acquire, shown, blitDone>> /\ blitCount' = blitCount + 1
    BY <1>6 DEF SubmitBlit
  <2>3. gpu' \in Seq(Submission) /\ signalled' \in [0 .. Ring - 1 -> BOOLEAN]
    <3>1. /\ gpu' \in {gpu, Append(gpu, Blit(blitCount + 1, swapchain))}
          /\ signalled' \in {signalled, [signalled EXCEPT ![acquire] = FALSE]}
      BY <1>6 DEF SubmitBlit
    <3>2. gpu' \in Seq(Submission)
      BY <1>1, <2>1, <3>1
    <3>3. signalled' \in [0 .. Ring - 1 -> BOOLEAN]
      BY <1>1, <3>1
    <3> QED BY <3>2, <3>3
  <2>4. consumed' \in [0 .. Ring - 1 -> 0 .. blitCount']
    BY <1>1, <1>6, <2>2 DEF SubmitBlit
  <2> QED BY <1>1, <2>2, <2>3, <2>4
<1>7. ASSUME NEW result \in {"ok", "suboptimal", "outOfDate", "lost"}, NEW useId \in BOOLEAN,
             QueuePresent(result, useId)
      PROVE  GpuType'
  BY <1>1, <1>7 DEF QueuePresent
<1>8. CASE SignalComplete
  <2>1. Complete(presentCount + 1) \in Submission
    BY <1>8, Constants DEF TypeOK, StepInv, SignalComplete, Complete, Submission, Frames
  <2> QED BY <1>1, <1>8, <2>1 DEF SignalComplete
<1>9. CASE Gpu
  <2>1. blitDone' \in 0 .. blitCount
    BY <1>1, <1>9, BlitFinished DEF VkQueueInv
  <2> QED BY <1>1, <1>9, <2>1 DEF Gpu
<1>10. CASE UNCHANGED <<acqVars, gpu, blitDone, shown>>
  BY <1>1, <1>10
<1>11. (App /\ ~QueueDrained) \/ Worker => UNCHANGED <<acqVars, gpu, blitDone, shown>>
  BY DEF App, Present, ReturnEarly, DecideToWait, AcquireLatency, Resize, Reallocate, Release,
         StopWorker, JoinWorker, Worker, WorkerSleeps, WorkerTakes, WorkerWaited, WorkerReleases,
         WorkerPops
<1>12. ASSUME Callback, ~NextSemaphore, ~SignalComplete,
              \A result \in {"ok", "suboptimal", "outOfDate", "lost"} : ~AcquireImage(result),
              \A result \in {"ok", "suboptimal", "outOfDate", "lost"}, useId \in BOOLEAN :
                ~QueuePresent(result, useId),
              \A ok \in BOOLEAN : ~SubmitBlit(ok)
       PROVE  UNCHANGED <<acqVars, gpu, blitDone, shown>>
  BY <1>12 DEF Callback, CallbackBegins, CheckSwapchain, NothingToDestroy, DrainWaiter,
               DestroySwapchain, CreateSwapchain, HasImage, PushPresentId, CallbackEnds
<1> QED BY <1>3, <1>4, <1>5, <1>6, <1>7, <1>8, <1>9, <1>10, <1>11, <1>12 DEF Next

LEMMA WorkerTypeStep ==
  ASSUME TypeOK, StepInv, QueueInv, Next
  PROVE  WorkerType'
<1> USE DEF WorkerType, appVars, taskVars, acqVars, gpuVars, workVars
<1>1. WorkerType
  BY DEF TypeOK, Entry
<1>2. CASE StopWorker
  <2>1. Sentinel \in Entry
    BY Constants DEF Sentinel, Entry, Frames
  <2> QED BY <1>1, <1>2, <2>1 DEF StopWorker
<1>3. CASE PushPresentId
  <2> DEFINE e == [frame |-> presentCount + 1, id |-> IF idValid THEN swapchain ELSE 0]
  <2>1. presentCount + 1 \in Frames
    BY <1>3, Constants DEF TypeOK, StepInv, Frames, PushPresentId
  <2>2. e \in Entry
    BY <2>1 DEF TypeOK, Entry
  <2>3. waitQueue' = Append(waitQueue, e) /\ worker' \in {worker, "top"}
    BY <1>3 DEF PushPresentId
  <2> HIDE DEF e
  <2> QED BY <1>1, <2>2, <2>3
<1>4. CASE WorkerPops
  BY <1>1, <1>4 DEF WorkerPops, QueueInv
<1>5. CASE Worker /\ ~WorkerPops
  BY <1>1, <1>5 DEF Worker, WorkerSleeps, WorkerTakes, WorkerWaited, WorkerReleases
<1>6. CASE (App /\ ~StopWorker) \/ Gpu
  BY <1>1, <1>6 DEF App, Present, ReturnEarly, DecideToWait, AcquireLatency, Resize, Reallocate,
                    Release, QueueDrained, JoinWorker, Gpu
<1>7. CASE Callback /\ ~PushPresentId
  BY <1>1, <1>7 DEF Callback, CallbackBegins, CheckSwapchain, NothingToDestroy, DrainWaiter,
       DestroySwapchain, CreateSwapchain, HasImage, NextSemaphore, AcquireImage, QueuePresent,
       SubmitBlit, SignalComplete, CallbackEnds
<1> QED BY <1>2, <1>3, <1>4, <1>5, <1>6, <1>7 DEF Next

-----------------------------------------------------------------------------
(* The invariant                                                           *)

\* The application is at most a ring ahead of the callback, but for what it owes.
LEMMA AheadBounded ==
  ASSUME TypeOK, StepInv, QueueInv, LatencyInv, step = "idle", waitCounts <= 1
  PROVE  userCount <= presentCount + Ring
<1>1. userCount \in Nat /\ waitCounts \in Nat /\ latencySem \in Nat /\ released \in Nat
      /\ presentCount \in Nat
  BY EndedInt DEF TypeOK, Frames
<1>2. released <= presentCount
  BY <1>1, ReleasedNext DEF Pushed
<1> QED BY <1>1, <1>2, Constants DEF LatencyInv

\* The callback takes what is in its slot, and the application goes on.
LEMMA RequestStep ==
  ASSUME TypeOK, RingInv, RequestInv, Next
  PROVE  RequestInv'
<1> USE DEF RequestInv, appVars, taskVars, acqVars, gpuVars, workVars
<1>1. userCount \in Nat /\ presentCount \in Nat /\ request \in Nat
  BY Constants, EndedInt DEF TypeOK, Frames
<1>2. CASE App
  <2>1. UNCHANGED <<step, request, presentCount>> /\ userCount' \in {userCount, userCount + 1}
    BY <1>2 DEF App, Present, ReturnEarly, DecideToWait, AcquireLatency, Resize, Reallocate,
                Release, QueueDrained, StopWorker, JoinWorker
  <2> QED BY <1>1, <2>1 DEF Slot
<1>3. ASSUME NEW changes \in BOOLEAN, CallbackBegins(changes) PROVE RequestInv'
  <2>1. /\ presentCount + 1 \in 1 .. userCount /\ request' = ring[Slot(presentCount + 1)]
        /\ UNCHANGED <<presentCount, userCount>>
    BY <1>1, <1>3 DEF CallbackBegins
  <2> QED BY <2>1 DEF RingInv, Slot
<1>4. CASE CallbackEnds
  BY <1>4 DEF CallbackEnds
<1>5. CASE UNCHANGED <<request, presentCount, userCount>> /\ step # "idle"
  BY <1>5 DEF Slot
<1>6. CASE Callback /\ ~CallbackEnds /\ \A changes \in BOOLEAN : ~CallbackBegins(changes)
  <2>1. UNCHANGED <<request, presentCount, userCount>> /\ step # "idle"
    BY <1>6 DEF Callback, CheckSwapchain, NothingToDestroy, DrainWaiter,
         DestroySwapchain, CreateSwapchain, HasImage, NextSemaphore, AcquireImage, QueuePresent,
         SubmitBlit, SignalComplete, PushPresentId
  <2> QED BY <1>5, <2>1
<1>7. CASE Gpu \/ Worker
  <2>1. UNCHANGED <<request, presentCount, userCount>>
        /\ (step' = step \/ step = "drainSleeps")
    BY <1>7 DEF Gpu, Worker, WorkerSleeps, WorkerTakes, WorkerWaited, WorkerReleases, WorkerPops
  <2> QED BY <2>1 DEF Slot
<1> QED BY <1>2, <1>3, <1>4, <1>6, <1>7 DEF Next, Callback

\* Without the low latency mode the callback of a frame finds its own request
\* where the application has put it.
LEMMA NormalStep ==
  ASSUME TRUE \notin LowModes, TypeOK, StepInv, QueueInv, LatencyInv, RingInv, NormalInv, Next
  PROVE  NormalInv'
<1> USE DEF NormalInv, RequestIsItsOwn, appVars, taskVars, acqVars, gpuVars, workVars
<1>1. userCount \in Nat /\ waitCounts \in Nat /\ latencySem \in Nat /\ released \in Nat
      /\ presentCount \in Nat
  BY EndedInt DEF TypeOK, Frames
<1>2. CASE App
  <2>1. UNCHANGED <<step, request, presentCount>>
    BY <1>2 DEF App, Present, ReturnEarly, DecideToWait, AcquireLatency, Resize, Reallocate,
                Release, QueueDrained, StopWorker, JoinWorker
  <2>2. waitCounts' <= 1 /\ (app' \notin {"latency", "waits"} => waitCounts' = 0)
    <3>1. CASE Present
      BY <1>1, <3>1 DEF Present
    <3>2. CASE AcquireLatency
      BY <1>1, <3>2 DEF AcquireLatency, LatencyInv
    <3>3. CASE ~Present /\ ~AcquireLatency
      BY <1>2, <3>3 DEF App, ReturnEarly, DecideToWait, Resize, Reallocate, Release, QueueDrained,
                        StopWorker, JoinWorker
    <3> QED BY <3>1, <3>2, <3>3
  <2> QED BY <2>1, <2>2
<1>3. ASSUME NEW changes \in BOOLEAN, CallbackBegins(changes) PROVE NormalInv'
  <2> DEFINE n == presentCount + 1
  <2>1. n \in 1 .. userCount
    BY <1>1, <1>3 DEF CallbackBegins
  <2>2. userCount <= presentCount + Ring
    BY <1>3, AheadBounded DEF CallbackBegins
  <2>3. userCount < n + Ring
    BY <1>1, <2>2, Constants
  <2>4. ring[Slot(n)] = n
    BY <2>1, <2>3 DEF RingInv
  <2> QED BY <1>3, <2>4 DEF CallbackBegins
<1>4. CASE CallbackEnds
  BY <1>4 DEF CallbackEnds
<1>5. CASE UNCHANGED <<waitCounts, app, request, presentCount>> /\ step # "idle"
  BY <1>5
<1>6. CASE Callback /\ ~CallbackEnds /\ \A changes \in BOOLEAN : ~CallbackBegins(changes)
  <2>1. UNCHANGED <<waitCounts, app, request, presentCount>> /\ step # "idle"
    BY <1>6 DEF Callback, CheckSwapchain, NothingToDestroy, DrainWaiter,
         DestroySwapchain, CreateSwapchain, HasImage, NextSemaphore, AcquireImage, QueuePresent,
         SubmitBlit, SignalComplete, PushPresentId
  <2> QED BY <1>5, <2>1
<1>7. CASE Gpu
  BY <1>7 DEF Gpu
<1>8. CASE Worker
  <2>1. UNCHANGED <<waitCounts, app, request, presentCount>>
        /\ (step' = step \/ step = "drainSleeps")
    BY <1>8 DEF Worker, WorkerSleeps, WorkerTakes, WorkerWaited, WorkerReleases, WorkerPops
  <2> QED BY <2>1
<1> QED BY <1>2, <1>3, <1>4, <1>6, <1>7, <1>8 DEF Next, Callback

\* The assertion of submit_blit, and what a destroyed swapchain leaves.
LEMMA PartsImply ==
  ASSUME IInv
  PROVE  /\ VulkanObjectsAreReady /\ LatencyBounded /\ WaitsOnLiveSwapchain
         /\ RequestIsPickedUp
<1> USE DEF IInv
<1>1. AcquiredBeforeBlit
  BY DEF ImageInv, AcquiredBeforeBlit
<1>2. NothingAfterRelease
  <2> SUFFICES ASSUME Stopped
      PROVE  step = "idle" /\ presentCount = userCount
             /\ \A i \in DOMAIN gpu : gpu[i].frame = 0 /\ gpu[i].of = 0
    BY DEF Stopped, NothingAfterRelease
  <2>1. step = "idle" /\ presentCount = userCount
    BY DEF Stopped, Leaving, StepInv
  <2>2. Ended = userCount /\ complete >= userCount
    BY <2>1, EndedInt DEF Ended, FrameInv
  <2>3. \A i \in DOMAIN gpu : gpu[i].frame = 0
    BY <2>2, EndedInt DEF FrameInv
  <2>4. \A i \in DOMAIN gpu : gpu[i].of = 0
    BY <2>1, <2>3 DEF FrameInv
  <2> QED BY <2>1, <2>3, <2>4
<1>3. LatencyBounded
  BY EndedInt, Constants DEF LatencyInv, LatencyBounded, TypeOK
<1>4. WaitsOnLiveSwapchain
  <2>1. waitQueue \in Seq(Entry)
    BY DEF TypeOK, Entry
  <2>2. waitQueue # <<>> => 1 \in DOMAIN waitQueue /\ Head(waitQueue) = waitQueue[1]
    BY <2>1
  <2> QED BY <2>2 DEF QueueInv, WaitsOnLiveSwapchain
<1>5. RequestIsPickedUp
  <2> SUFFICES ASSUME step = "idle", presentCount < userCount, waitCounts <= 1
               PROVE  ring[Slot(presentCount + 1)] = presentCount + 1
    BY DEF RequestInv, RequestIsPickedUp
  <2>1. userCount <= presentCount + Ring
    BY AheadBounded
  <2>2. presentCount + 1 \in 1 .. userCount /\ userCount < (presentCount + 1) + Ring
    BY <2>1, EndedInt, Constants DEF TypeOK
  <2> QED BY <2>2 DEF RingInv
<1> QED BY <1>1, <1>2, <1>3, <1>4, <1>5 DEF VulkanObjectsAreReady

\* The buffers are replaced when the last frame is complete: then the callback
\* has ended it, and no blit is before or behind it.
LEMMA ReplacedIdle ==
  ASSUME IInv, Reallocate
  PROVE  step \in {"push", "done", "idle"} /\ \A i \in DOMAIN gpu : gpu[i].blit = 0
<1> USE DEF IInv
<1>1. complete >= userCount /\ complete <= Ended /\ ~Leaving
  BY DEF Reallocate, FrameInv, Leaving
<1>2. step \in {"push", "done", "idle"}
  BY <1>1, EndedInt DEF Ended, StepInv
<1>3. Ended <= userCount
  <2>1. presentCount <= userCount
    BY EndedInt DEF TypeOK
  <2>2. step # "idle" => presentCount < userCount
    BY DEF StepInv
  <2> QED BY <1>2, <2>1, <2>2, EndedInt DEF Ended
<1>4. \A i \in DOMAIN gpu : gpu[i].frame = 0
  BY <1>1, <1>3, EndedInt DEF FrameInv
<1>5. \A i \in DOMAIN gpu : FALSE
  BY <1>1, <1>2, <1>4 DEF FrameInv
<1> QED BY <1>2, <1>5

LEMMA InitIInv == Init => IInv /\ NormalInv
<1> SUFFICES ASSUME Init PROVE IInv /\ NormalInv
  OBVIOUS
<1> USE DEF Init
<1>1. LatencyInv /\ RingInv /\ RequestInv
  BY Constants DEF LatencyInv, RingInv, RequestInv
<1>2. AppType /\ TaskType /\ WorkerType
  BY Constants DEF AppType, TaskType, WorkerType, Frames, Steps
<1>3. GpuType
  BY Constants DEF GpuType
<1>4. TypeOK
  BY <1>1, <1>2, <1>3, TypeParts
<1>5. StepInv /\ ImageInv /\ BlitInv /\ FrameInv
  BY DEF StepInv, ImageInv, BlitInv, FrameInv, Leaving, Stopped, Ended
<1>6. QueueInv
  BY DEF QueueInv, First, Pushed, Stopped
<1>7. BlitsAreOfLive /\ OnlyCurrentSignalled /\ NoPendingWait /\ NoMissedWakeup
  BY DEF BlitsAreOfLive, OnlyCurrentSignalled, NoPendingWait, NoMissedWakeup
<1>8. NormalInv
  BY DEF NormalInv, RequestIsItsOwn
<1> QED BY <1>1, <1>4, <1>5, <1>6, <1>7, <1>8 DEF IInv

LEMMA NextIInv ==
  ASSUME IInv, Next
  PROVE  IInv'
<1>1. /\ TypeOK /\ StepInv /\ AcquireInv /\ VkQueueInv /\ FrameInv /\ QueueInv /\ LatencyInv
      /\ RingInv /\ RequestInv /\ NoPendingWait /\ NoMissedWakeup
  BY DEF IInv, AcquireInv, VkQueueInv
<1>2. StepInv' /\ AcquireInv' /\ VkQueueInv' /\ FrameInv' /\ QueueInv' /\ LatencyInv' /\ RingInv'
      /\ RequestInv' /\ NoPendingWait' /\ NoMissedWakeup'
  BY <1>1, StepStep, AcquireStep, BlitStep, FrameStep, QueueStep, LatencyStep, RingStep,
     RequestStep, PendingWaitStep, WakeupStep
<1>3. AppType' /\ TaskType' /\ GpuType' /\ WorkerType'
  BY <1>1, AppTypeStep, TaskTypeStep, GpuTypeStep, WorkerTypeStep
<1>4. TypeOK'
  BY <1>2, <1>3, TypeParts, PTL
<1> QED BY <1>2, <1>4 DEF IInv, AcquireInv, VkQueueInv

LEMMA StutterIInv ==
  ASSUME UNCHANGED vars
  PROVE  (IInv => IInv') /\ (NormalInv => NormalInv')
<1> USE DEF vars, appVars, taskVars, acqVars, gpuVars, workVars
<1>1. TypeOK => TypeOK'
  BY DEF TypeOK
<1>2. (StepInv => StepInv') /\ (ImageInv => ImageInv') /\ (BlitInv => BlitInv')
  BY DEF StepInv, ImageInv, BlitInv, Leaving
<1>3. FrameInv => FrameInv'
  BY DEF FrameInv, Leaving, Stopped, Ended
<1>4. QueueInv => QueueInv'
  BY DEF QueueInv, First, Pushed, Stopped
<1>5. /\ (LatencyInv => LatencyInv') /\ (RingInv => RingInv') /\ (NormalInv => NormalInv')
      /\ (RequestInv => RequestInv')
  BY DEF LatencyInv, RingInv, NormalInv, RequestIsItsOwn, RequestInv, Slot
<1>6. /\ (BlitsAreOfLive => BlitsAreOfLive') /\ (OnlyCurrentSignalled => OnlyCurrentSignalled')
      /\ (NoPendingWait => NoPendingWait') /\ (NoMissedWakeup => NoMissedWakeup')
  BY DEF BlitsAreOfLive, OnlyCurrentSignalled, NoPendingWait, NoMissedWakeup
<1> QED BY <1>1, <1>2, <1>3, <1>4, <1>5, <1>6 DEF IInv

\* IInv holds in every reachable state.
THEOREM Invariance == Spec => []IInv
<1>1. IInv /\ [Next]_vars => IInv'
  BY NextIInv, StutterIInv
<1> QED BY <1>1, InitIInv, PTL DEF Spec

-----------------------------------------------------------------------------
(* The properties                                                          *)

\* Whatever the surface, resizes and failures do: a swapchain is destroyed when
\* the GPU is done with its images, acquire semaphores are signalled only with
\* nothing pending, a blit has its semaphore (the assertion of submit_blit), and
\* nothing runs after the last reference.
THEOREM VulkanObjectsReady == Spec => []VulkanObjectsAreReady
<1>1. IInv => VulkanObjectsAreReady
  BY PartsImply
<1> QED BY <1>1, Invariance, PTL

\* The buffers of the application are replaced, and the flag of the present task
\* is set from another thread, when no frame uses them.
THEOREM ReplacedOnlyWhenIdle == Spec => ReplacedWhenIdle
<1> DEFINE Act == app = "resizes" /\ app' = "runs" =>
                    /\ step \in {"push", "done", "idle"}
                    /\ \A i \in DOMAIN gpu : gpu[i].blit = 0
<1>1. IInv /\ [Next]_vars => Act
  <2> SUFFICES ASSUME IInv, [Next]_vars, app = "resizes", app' = "runs"
               PROVE  step \in {"push", "done", "idle"} /\ \A i \in DOMAIN gpu : gpu[i].blit = 0
    OBVIOUS
  <2>1. Reallocate
    BY DEF Next, App, Present, ReturnEarly, DecideToWait, AcquireLatency, Resize,
           Release, QueueDrained, StopWorker, JoinWorker, Callback, CallbackBegins, CheckSwapchain,
           NothingToDestroy, DrainWaiter, DestroySwapchain, CreateSwapchain, HasImage, NextSemaphore,
           AcquireImage, QueuePresent, SubmitBlit, SignalComplete, PushPresentId, CallbackEnds,
           Gpu, Worker, WorkerSleeps, WorkerTakes, WorkerWaited, WorkerReleases, WorkerPops,
           vars, appVars
  <2> QED BY <2>1, ReplacedIdle
<1>2. []IInv /\ [][Next]_vars => [][Act]_vars
  BY <1>1, PTL
<1> QED BY <1>2, Invariance, PTL DEF Spec, ReplacedWhenIdle

\* In and out of low latency mode: a callback works with its own request, or a
\* later one of the same slot when the application has run ahead; when the
\* application has made up for its waits it is at most Latency - 1 frames ahead of
\* what was shown; the wait thread waits for a present on a swapchain that exists,
\* and neither it nor the present task misses a wakeup.
THEOREM FramesInStep == Spec => []FramesAreInStep
<1>1. IInv => FramesAreInStep
  BY PartsImply DEF FramesAreInStep, IInv
<1> QED BY <1>1, Invariance, PTL

\* Without the low latency mode the callback of a frame works with the request of
\* that frame, however many frames are in flight.
THEOREM RequestsAreTheirOwn == (TRUE \notin LowModes) => (Spec => []RequestIsItsOwn)
<1> SUFFICES ASSUME TRUE \notin LowModes PROVE Spec => []RequestIsItsOwn
  OBVIOUS
<1>1. IInv /\ NormalInv /\ [Next]_vars => NormalInv'
  <2> SUFFICES ASSUME IInv, NormalInv, [Next]_vars PROVE NormalInv'
    OBVIOUS
  <2>1. CASE Next
    BY <2>1, NormalStep DEF IInv
  <2>2. CASE UNCHANGED vars
    BY <2>2, StutterIInv
  <2> QED BY <2>1, <2>2
<1>2. NormalInv => RequestIsItsOwn
  BY DEF NormalInv
<1> QED BY <1>1, <1>2, InitIInv, Invariance, PTL DEF Spec
=============================================================================
