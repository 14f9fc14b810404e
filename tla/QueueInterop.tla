----------------------------- MODULE QueueInterop -----------------------------
(***************************************************************************)
(* External users of a command queue's VkQueue (libs/vkd3d/command.c):     *)
(* vkd3d_acquire_vk_queue drains the queue and keeps queue_lock and the    *)
(* vkd3d_queue mutex until vkd3d_release_vk_queue.  Swap chains and        *)
(* ID3D12DXVKInteropDevice::LockCommandQueue use it from any thread.       *)
(*                                                                         *)
(* One condition variable, queue_cond, serves the submission thread (is    *)
(* there a submission?) and every draining thread (is my drain over?), and *)
(* is only ever signalled, never broadcast.                                *)
(***************************************************************************)
EXTENDS Integers, Sequences, FiniteSets

CONSTANTS
  Users,         \* threads that acquire the VkQueue
  Worker,        \* the submission thread
  None,          \* no thread
  MayStagger,    \* whether a submission may be staggered: a set of BOOLEANs
  MaxExecutes,   \* bound: ExecuteCommandLists calls
  MaxAcquires    \* bound: acquisitions per user

ASSUME InteropAssumption ==
  /\ Worker \notin Users /\ None \notin Users \cup {Worker}
  /\ MayStagger \subseteq BOOLEAN /\ MayStagger # {}
  /\ MaxExecutes \in Nat /\ MaxAcquires \in Nat

VARIABLES
  queue_lock,        \* user holding queue_lock across calls, or None
  vk_lock,           \* thread holding the vkd3d_queue mutex, or None
  sleeping,          \* threads waiting on queue_cond
  submissions,       \* queue->submissions
  drain_count, queue_drain_count,
  worker,            \* what the submission thread is doing
  user,              \* what each user is doing
  submission_timeline_count, completed, last_submission,
  appended,          \* history: submissions ever appended
  finished,          \* history: submissions the thread is through with
  executes

locks    == <<queue_lock, vk_lock, sleeping>>
drains   == <<drain_count, queue_drain_count>>
timeline == <<submission_timeline_count, completed, last_submission>>
vars == <<locks, submissions, drains, worker, user, timeline, appended, finished, executes>>

Idle == [pc |-> "loop", op |-> None, value |-> 0, awaited |-> 0]

Init ==
  /\ queue_lock = None /\ vk_lock = None /\ sleeping = {}
  /\ submissions = <<>> /\ drain_count = 0 /\ queue_drain_count = 0
  /\ worker = Idle
  /\ user = [u \in Users |-> [pc |-> "idle", current_drain |-> 0, position |-> 0,
                              external |-> 0, acquires |-> 0]]
  /\ submission_timeline_count = 0 /\ completed = 0 /\ last_submission = 0
  /\ appended = 0 /\ finished = 0 /\ executes = 0

\* pthread_cond_signal: one sleeper wakes, whichever it is.
CondSignal(left) ==
  IF sleeping = {} THEN left = {} ELSE \E t \in sleeping : left = sleeping \ {t}

\* Faulty variant: the submission thread is not told.
AddSubmission_Silently(op, left) ==
  /\ queue_lock = None
  /\ submissions' = Append(submissions, op)
  /\ appended' = appended + 1
  /\ left = sleeping

\* d3d12_command_queue_add_submission_locked
AddSubmission(op, left) ==
  /\ queue_lock = None
  /\ submissions' = Append(submissions, op)
  /\ appended' = appended + 1
  /\ CondSignal(left)

-----------------------------------------------------------------------------
(* The application.                                                        *)

ExecuteCommandLists ==
  /\ executes < MaxExecutes
  /\ executes' = executes + 1
  /\ AddSubmission([type |-> "execute"], sleeping')
  /\ UNCHANGED <<queue_lock, vk_lock, drains, worker, user, timeline, finished>>

\* d3d12_command_queue_acquire_serialized: the user queues a drain and sleeps.
Drain(u) ==
  /\ user[u].pc = "idle" /\ user[u].acquires < MaxAcquires
  /\ drain_count' = drain_count + 1
  /\ user' = [user EXCEPT ![u].pc = "draining", ![u].current_drain = drain_count + 1,
                          ![u].position = appended + 1, ![u].acquires = @ + 1]
  /\ \E left \in SUBSET sleeping :
       /\ AddSubmission([type |-> "drain"], left)
       /\ sleeping' = left \cup {u}
  /\ UNCHANGED <<queue_lock, vk_lock, queue_drain_count, worker, timeline, finished, executes>>

\* Woken for somebody else's drain, or for a new submission.
DrainsOn(u) ==
  /\ user[u].pc = "draining" /\ u \notin sleeping /\ queue_lock = None
  /\ user[u].current_drain > queue_drain_count
  /\ sleeping' = sleeping \cup {u}
  /\ UNCHANGED <<queue_lock, vk_lock, submissions, drains, worker, user, timeline,
                 appended, finished, executes>>

Drained(u) ==
  /\ user[u].pc = "draining" /\ u \notin sleeping /\ queue_lock = None
  /\ user[u].current_drain <= queue_drain_count
  /\ queue_lock' = u
  /\ user' = [user EXCEPT ![u].pc = "serialized"]
  /\ UNCHANGED <<vk_lock, sleeping, submissions, drains, worker, timeline,
                 appended, finished, executes>>

AcquireVkQueue(u) ==
  /\ user[u].pc = "serialized" /\ vk_lock = None
  /\ vk_lock' = u
  /\ user' = [user EXCEPT ![u].pc = "acquired"]
  /\ UNCHANGED <<queue_lock, sleeping, submissions, drains, worker, timeline,
                 appended, finished, executes>>

\* Faulty variant: queue_lock is kept.
ReleaseVkQueue_Serialized(u) ==
  /\ user[u].pc = "acquired"
  /\ submission_timeline_count' = submission_timeline_count + 1
  /\ last_submission' = submission_timeline_count + 1
  /\ user' = [user EXCEPT ![u].pc = "released",
                          ![u].external = submission_timeline_count + 1]
  /\ vk_lock' = None
  /\ UNCHANGED <<queue_lock, sleeping, submissions, drains, worker, completed,
                 appended, finished, executes>>

\* Faulty variant: the command queue does not learn of the submission.
ReleaseVkQueue_Unrecorded(u) ==
  /\ user[u].pc = "acquired"
  /\ submission_timeline_count' = submission_timeline_count + 1
  /\ user' = [user EXCEPT ![u].pc = "released",
                          ![u].external = submission_timeline_count + 1]
  /\ vk_lock' = None /\ queue_lock' = None
  /\ UNCHANGED <<sleeping, submissions, drains, worker, completed, last_submission,
                 appended, finished, executes>>

\* vkd3d_release_vk_queue ends the user's own submissions with one of ours.
ReleaseVkQueue(u) ==
  /\ user[u].pc = "acquired"
  /\ submission_timeline_count' = submission_timeline_count + 1
  /\ last_submission' = submission_timeline_count + 1
  /\ user' = [user EXCEPT ![u].pc = "released",
                          ![u].external = submission_timeline_count + 1]
  /\ vk_lock' = None /\ queue_lock' = None
  /\ UNCHANGED <<sleeping, submissions, drains, worker, completed,
                 appended, finished, executes>>

\* ID3D12CommandQueue::Signal, to learn when the external work is done.
Signal(u) ==
  /\ user[u].pc = "released"
  /\ AddSubmission([type |-> "signal", follows |-> user[u].external], sleeping')
  /\ user' = [user EXCEPT ![u].pc = "idle"]
  /\ UNCHANGED <<queue_lock, vk_lock, drains, worker, timeline, finished, executes>>

User(u) ==
  \/ DrainsOn(u) \/ Drained(u) \/ AcquireVkQueue(u) \/ ReleaseVkQueue(u) \/ Signal(u)

-----------------------------------------------------------------------------
(* The submission thread.                                                  *)

AtLoop == worker.pc = "loop" /\ Worker \notin sleeping /\ queue_lock = None

Sleep ==
  /\ AtLoop /\ submissions = <<>>
  /\ sleeping' = sleeping \cup {Worker}
  /\ UNCHANGED <<queue_lock, vk_lock, submissions, drains, worker, user, timeline,
                 appended, finished, executes>>

Pop ==
  /\ AtLoop /\ submissions # <<>>
  /\ worker' = [worker EXCEPT !.pc = "popped", !.op = Head(submissions)]
  /\ submissions' = Tail(submissions)
  /\ UNCHANGED <<locks, drains, user, timeline, appended, finished, executes>>

\* Drains and signals flush the deferred waits under the vkd3d_queue mutex.
Flush ==
  /\ worker.pc = "popped" /\ worker.op.type \in {"drain", "signal"}
  /\ vk_lock = None
  /\ worker' = [worker EXCEPT !.pc = "flushed"]
  /\ UNCHANGED <<locks, submissions, drains, user, timeline, appended, finished, executes>>

\* Faulty variant: the drain is counted when it is taken, not when it is done.
CountDrain_Early ==
  /\ worker.pc \in {"popped", "flushed"} /\ worker.op.type = "drain" /\ queue_lock = None
  /\ IF worker.pc = "flushed"
     THEN worker' = Idle /\ finished' = finished + 1 /\ UNCHANGED <<queue_drain_count, sleeping>>
     ELSE /\ worker' = [worker EXCEPT !.pc = "flushed"]
          /\ queue_drain_count' = queue_drain_count + 1
          /\ CondSignal(sleeping')
          /\ UNCHANGED finished
  /\ UNCHANGED <<queue_lock, vk_lock, submissions, drain_count, user, timeline,
                 appended, executes>>

\* Faulty variant: nobody is woken when a drain is over.
CountDrain_Silently ==
  /\ worker.pc = "flushed" /\ worker.op.type = "drain" /\ queue_lock = None
  /\ queue_drain_count' = queue_drain_count + 1
  /\ worker' = Idle /\ finished' = finished + 1
  /\ UNCHANGED <<locks, submissions, drain_count, user, timeline, appended, executes>>

CountDrain ==
  /\ worker.pc = "flushed" /\ worker.op.type = "drain" /\ queue_lock = None
  /\ queue_drain_count' = queue_drain_count + 1
  /\ CondSignal(sleeping')
  /\ worker' = Idle /\ finished' = finished + 1
  /\ UNCHANGED <<queue_lock, vk_lock, submissions, drain_count, user, timeline,
                 appended, executes>>

\* d3d12_command_queue_signal schedules the fence at last_submission.
ScheduleSignal ==
  /\ worker.pc = "flushed" /\ worker.op.type = "signal"
  /\ worker' = Idle /\ finished' = finished + 1
  /\ UNCHANGED <<locks, submissions, drains, user, timeline, appended, executes>>

\* d3d12_command_queue_execute: one submission, under the vkd3d_queue mutex;
\* a staggered one gives the mutex up and waits for the submission before.
Submit ==
  /\ worker.pc = "popped" /\ worker.op.type = "execute" /\ vk_lock = None
  /\ submission_timeline_count' = submission_timeline_count + 1
  /\ \E stagger \in MayStagger :
       IF stagger
       THEN /\ worker' = [worker EXCEPT !.pc = "staggered",
                                        !.value = submission_timeline_count + 1]
            /\ UNCHANGED <<last_submission, finished>>
       ELSE /\ last_submission' = submission_timeline_count + 1
            /\ worker' = Idle /\ finished' = finished + 1
  /\ UNCHANGED <<locks, submissions, drains, user, completed, appended, executes>>

\* d3d12_command_queue_wait_staggered_submission
WaitStaggered ==
  /\ worker.pc = "staggered"
  /\ worker' = [worker EXCEPT !.pc = "waiting", !.awaited = last_submission]
  /\ UNCHANGED <<locks, submissions, drains, user, timeline, appended, finished, executes>>

EndStaggered ==
  /\ worker.pc = "waiting" /\ completed >= worker.awaited /\ vk_lock = None
  /\ last_submission' = worker.value
  /\ worker' = Idle /\ finished' = finished + 1
  /\ UNCHANGED <<locks, submissions, drains, user, submission_timeline_count, completed,
                 appended, executes>>

SubmissionThread ==
  \/ Sleep \/ Pop \/ Flush \/ CountDrain \/ ScheduleSignal
  \/ Submit \/ WaitStaggered \/ EndStaggered

\* The VkQueue finishes its submissions in order.
Gpu ==
  /\ completed < submission_timeline_count
  /\ completed' = completed + 1
  /\ UNCHANGED <<locks, submissions, drains, worker, user, submission_timeline_count,
                 last_submission, appended, finished, executes>>

Next ==
  \/ ExecuteCommandLists \/ SubmissionThread \/ Gpu
  \/ \E u \in Users : Drain(u) \/ User(u)

Spec == Init /\ [][Next]_vars

\* Threads are scheduled, the GPU makes progress and a user that acquired the
\* VkQueue releases it; nobody has to start anything.
FairSpec ==
  /\ Spec
  /\ WF_vars(SubmissionThread) /\ WF_vars(Gpu)
  /\ \A u \in Users : WF_vars(User(u))

-----------------------------------------------------------------------------
(* Properties.                                                             *)

\* The locks are held by the users that are in the section they protect, and
\* sleeping threads are where pthread_cond_wait is called.
TypeOK ==
  /\ \A u \in Users : /\ queue_lock = u <=> user[u].pc \in {"serialized", "acquired"}
                      /\ vk_lock = u <=> user[u].pc = "acquired"
                      /\ u \in sleeping => user[u].pc = "draining"
  /\ Worker \in sleeping => worker.pc = "loop"
  /\ queue_drain_count \in 0..drain_count
  /\ appended = finished + Len(submissions) + (IF worker.pc = "loop" THEN 0 ELSE 1)
  /\ last_submission \in 0..submission_timeline_count

\* Whoever acquires the VkQueue finds everything submitted that was queued
\* before (d3d12_command_queue_acquire_serialized).
DrainIsComplete ==
  \A u \in Users :
    user[u].pc \in {"serialized", "acquired"} => finished >= user[u].position

\* A fence signalled after the VkQueue was released is scheduled at a value
\* that covers the external submissions (vkd3d_release_vk_queue).
SignalCoversExternalWork ==
  worker.pc = "flushed" /\ worker.op.type = "signal" =>
    last_submission >= worker.op.follows

\* A thread that acquires the VkQueue gets it: the drain it waits for is
\* executed, and it is told (queue_cond).
AcquireReturns ==
  \A u \in Users : user[u].pc = "draining" ~> user[u].pc = "acquired"

\* The submission thread is not left asleep with submissions queued.
SubmissionsAreTaken == []<>(submissions = <<>>)

\* Whoever holds the VkQueue holds it alone, with everything before it submitted.
AcquireIsSafe == TypeOK /\ DrainIsComplete
=============================================================================
