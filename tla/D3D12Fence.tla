------------------------------ MODULE D3D12Fence ------------------------------
(***************************************************************************)
(* One non-shared ID3D12Fence and every thread that can touch it:          *)
(*   - application threads: Signal, SetEventOnCompletion (with an event    *)
(*     handle, or with NULL, which blocks), CommandQueue::Wait, Release;   *)
(*   - submission threads of command queues, which schedule GPU signals    *)
(*     and resolve queue waits, sleeping on fence->cond if they have to;   *)
(*   - fence workers, which apply a GPU signal once the GPU reached it,    *)
(*     and which hold back later signals until an update was applied.      *)
(* Calls arrive in any order here: program order within one command queue  *)
(* is added by module CommandQueue.                                        *)
(***************************************************************************)
EXTENDS FenceObject

CONSTANTS
  UINT64_MAX,   \* the value Release signals; 2^64-1 in the code
  VkQueues,     \* physical queues, each with its submission timeline
  Waits,        \* ID3D12CommandQueue::Wait calls on this fence
  QueueOf,      \* the VkQueue behind the command queue of each wait
  Handles,      \* event handles
  NullThreads,  \* threads that call SetEventOnCompletion with a NULL event
  MaxUpdates    \* bound: GPU signals ever scheduled

ASSUME UINT64_MAX_Assumption == UINT64_MAX \in Nat
ASSUME MaxUpdatesAssumption == MaxUpdates \in Nat
ASSUME QueueOfAssumption == QueueOf \in [Waits -> VkQueues]
ASSUME DisjointAssumption == Handles \cap NullThreads = {}

VARIABLES
  fence,      \* struct d3d12_fence
  wait,       \* state of every queue wait
  null_wait,  \* state of every blocking SetEventOnCompletion
  signalled,  \* event handles that were signalled
  in_worker,  \* scheduled updates whose fence worker has not run yet
  released    \* the public reference count is zero

vars == <<fence, wait, null_wait, signalled, in_worker, released>>

Values == 0..UINT64_MAX

-----------------------------------------------------------------------------
(* Sleeping threads.  fence->cond has two kinds of sleepers: submission    *)
(* threads ("asleep") and fence workers ("order_asleep").                  *)

\* Faulty variant: only submission threads are woken.
Broadcast_SubmissionOnly(pc) == IF pc = "asleep" THEN "awake" ELSE pc

Broadcast(pc) ==
  IF pc = "asleep" THEN "awake"
  ELSE IF pc = "order_asleep" THEN "order_awake" ELSE pc

\* History: whether the fence held a satisfying value since registration.
Observe(r, vals) == r.reached \/ \E v \in vals : r.value <= v

\* What the broadcast on fence->cond, and the values taken, mean to waits.
NotifyWaits(vals) ==
  wait' = [w \in Waits |->
             [wait[w] EXCEPT !.pc = Broadcast(@),
                             !.reached = Observe(wait[w], vals)]]

\* d3d12_fence_signal_external_events_locked.
SignalEvents(vals) ==
  LET hit  == EventsReached(fence, vals)
      keys == {e.key : e \in hit}
  IN  /\ signalled' = signalled \cup (keys \cap Handles)
      /\ null_wait' =
           [t \in NullThreads |->
              [null_wait[t] EXCEPT
                 !.latch = @ \/ t \in keys,
                 !.pc = IF @ = "asleep" /\ keys \cap NullThreads # {}
                        THEN "awake" ELSE @]]

-----------------------------------------------------------------------------
(* Application threads.                                                    *)

\* d3d12_fence_signal_cpu_timeline_semaphore.
SetValue(value) ==
  /\ fence' = CpuSignal(fence, value)
  /\ NotifyWaits({value})
  /\ SignalEvents({value})

CpuSignalFence(value) ==
  /\ ~released
  /\ SetValue(value)
  /\ UNCHANGED <<in_worker, released>>

\* Faulty variant: waiters are left alone, as Release does for shared fences.
Release_Silently ==
  /\ ~released
  /\ released' = TRUE
  /\ UNCHANGED <<fence, wait, null_wait, signalled, in_worker>>

\* The last public reference goes; submissions keep internal references.
Release ==
  /\ ~released
  /\ released' = TRUE
  /\ SetValue(UINT64_MAX)
  /\ UNCHANGED in_worker

\* Faulty variant: an event whose value is just reached is still queued.
SetEventOnCompletion_Strict(h, value) ==
  /\ ~released
  /\ IF value < fence.virtual_value
     THEN signalled' = signalled \cup {h} /\ UNCHANGED fence
     ELSE fence' = AddEvent(fence, [value |-> value, key |-> h]) /\ UNCHANGED signalled
  /\ UNCHANGED <<wait, null_wait, in_worker, released>>

SetEventOnCompletion(h, value) ==
  /\ ~released
  /\ IF value <= fence.virtual_value
     THEN signalled' = signalled \cup {h} /\ UNCHANGED fence
     ELSE fence' = AddEvent(fence, [value |-> value, key |-> h]) /\ UNCHANGED signalled
  /\ UNCHANGED <<wait, null_wait, in_worker, released>>

SetNullEventOnCompletion(t, value) ==
  /\ ~released
  /\ null_wait[t].pc = "idle"
  /\ IF value <= fence.virtual_value
     THEN /\ null_wait' = [null_wait EXCEPT ![t] =
                             [pc |-> "done", latch |-> TRUE, value |-> value]]
          /\ UNCHANGED fence
     ELSE /\ null_wait' = [null_wait EXCEPT ![t] =
                             [pc |-> "asleep", latch |-> FALSE, value |-> value]]
          /\ fence' = AddEvent(fence, [value |-> value, key |-> t])
  /\ UNCHANGED <<wait, signalled, in_worker, released>>

\* The woken thread tests its own latch and sleeps again if it is not set.
NullEventWake(t) ==
  /\ null_wait[t].pc = "awake"
  /\ null_wait' = [null_wait EXCEPT ![t].pc =
                     IF null_wait[t].latch THEN "done" ELSE "asleep"]
  /\ UNCHANGED <<fence, wait, signalled, in_worker, released>>

\* ID3D12CommandQueue::Wait, on the application's thread.
RegisterPendingGpuWait(w, value) ==
  /\ ~released
  /\ wait[w].pc = "idle"
  /\ fence' = RegisterWait(fence, value)
  /\ wait' = [wait EXCEPT ![w] =
                [pc |-> "queued", value |-> value,
                 ticket |-> fence.wait_ticket_counter + 1, update |-> 0,
                 reached |-> value <= fence.virtual_value]]
  /\ UNCHANGED <<null_wait, signalled, in_worker, released>>

-----------------------------------------------------------------------------
(* Submission threads.                                                     *)

\* One turn of d3d12_fence_block_until_pending_value_reaches_locked, from
\* taking the mutex (or waking up with it) to sleeping or returning.
Unblocked(w) == wait[w].pc \in {"queued", "awake"}

\* The ticket is gone: the wait was satisfied, even if the value rewound.
WaitSatisfied(w) ==
  /\ Unblocked(w)
  /\ ~HasTicket(fence, wait[w].ticket)
  /\ wait' = [wait EXCEPT ![w].pc = "satisfied"]
  /\ UNCHANGED <<fence, null_wait, signalled, in_worker, released>>

WaitSleeps(w) ==
  /\ Unblocked(w)
  /\ HasTicket(fence, wait[w].ticket)
  /\ MustBlock(fence, wait[w].value)
  /\ wait' = [wait EXCEPT ![w].pc = "asleep"]
  /\ UNCHANGED <<fence, null_wait, signalled, in_worker, released>>

\* The wait becomes a GPU wait on update u, or submission order if u is on
\* the same VkQueue; either way the queue's fence worker must later see u.
WaitResolves(w, u) ==
  /\ Unblocked(w)
  /\ HasTicket(fence, wait[w].ticket)
  /\ ~MustBlock(fence, wait[w].value)
  /\ u \in Resolutions(fence, wait[w].value, QueueOf[w])
  /\ fence' = ConsumeTicket(fence, wait[w].ticket)
  /\ wait' = [wait EXCEPT ![w].pc = "ordering", ![w].update = u.update_count]
  /\ UNCHANGED <<null_wait, signalled, in_worker, released>>

\* Faulty variant: the signal never reaches the fence worker.
ScheduleSignal_NotQueued(q, value) ==
  /\ fence.update_count < MaxUpdates
  /\ fence' = AddPendingSignal(fence, value, q, 0)
  /\ NotifyWaits({})
  /\ UNCHANGED <<null_wait, signalled, in_worker, released>>

\* d3d12_command_queue_signal on a queue of VkQueue q.  Which submission of q
\* carries the signal does not matter to the fence: the value is left at 0.
ScheduleSignal(q, value) ==
  /\ fence.update_count < MaxUpdates
  /\ fence' = AddPendingSignal(fence, value, q, 0)
  /\ in_worker' = in_worker \cup {fence.update_count + 1}
  /\ NotifyWaits({})
  /\ UNCHANGED <<null_wait, signalled, released>>

-----------------------------------------------------------------------------
(* Fence workers.                                                          *)

\* d3d12_fence_signal: the GPU reached the submission of update n.
FenceSignal(n) ==
  /\ n \in in_worker
  /\ in_worker' = in_worker \ {n}
  /\ fence' = Signal(fence, n)
  /\ NotifyWaits(AppliedValues(fence, n))
  /\ SignalEvents(AppliedValues(fence, n))
  /\ UNCHANGED released

\* Faulty variant: the worker waits for the update before the one it needs.
WaitUntilSignalCountReaches_Early(w) ==
  /\ wait[w].pc \in {"ordering", "order_awake"}
  /\ wait' = [wait EXCEPT ![w].pc = IF fence.signal_count + 1 < wait[w].update
                                    THEN "order_asleep" ELSE "ordered"]
  /\ UNCHANGED <<fence, null_wait, signalled, in_worker, released>>

\* d3d12_fence_wait_until_signal_count_reaches_locked.
WaitUntilSignalCountReaches(w) ==
  /\ wait[w].pc \in {"ordering", "order_awake"}
  /\ wait' = [wait EXCEPT ![w].pc = IF fence.signal_count < wait[w].update
                                    THEN "order_asleep" ELSE "ordered"]
  /\ UNCHANGED <<fence, null_wait, signalled, in_worker, released>>

-----------------------------------------------------------------------------

IdleWait == [pc |-> "idle", value |-> 0, ticket |-> 0, update |-> 0, reached |-> FALSE]

IdleNullWait == [pc |-> "idle", latch |-> FALSE, value |-> 0]

Init ==
  /\ \E initial \in Values : fence = NewFence(initial)
  /\ wait = [w \in Waits |-> IdleWait]
  /\ null_wait = [t \in NullThreads |-> IdleNullWait]
  /\ signalled = {}
  /\ in_worker = {}
  /\ released = FALSE

SubmissionThread(w) ==
  \/ WaitSatisfied(w)
  \/ WaitSleeps(w)
  \/ \E u \in fence.pending_updates : WaitResolves(w, u)

Next ==
  \/ \E value \in Values : CpuSignalFence(value)
  \/ Release
  \/ \E h \in Handles, value \in Values : SetEventOnCompletion(h, value)
  \/ \E t \in NullThreads, value \in Values : SetNullEventOnCompletion(t, value)
  \/ \E t \in NullThreads : NullEventWake(t)
  \/ \E w \in Waits, value \in Values : RegisterPendingGpuWait(w, value)
  \/ \E w \in Waits : SubmissionThread(w)
  \/ \E q \in VkQueues, value \in Values : ScheduleSignal(q, value)
  \/ \E n \in in_worker : FenceSignal(n)
  \/ \E w \in Waits : WaitUntilSignalCountReaches(w)

\* A runnable thread runs, and the GPU completes what was submitted.
Fairness ==
  /\ \A w \in Waits : WF_vars(SubmissionThread(w)) /\ WF_vars(WaitUntilSignalCountReaches(w))
  /\ \A t \in NullThreads : WF_vars(NullEventWake(t))
  /\ \A n \in 1..MaxUpdates : WF_vars(FenceSignal(n))

Spec == Init /\ [][Next]_vars

FairSpec == Spec /\ Fairness

-----------------------------------------------------------------------------
(* What the fence promises.                                                *)

WaitPCs == {"idle", "queued", "asleep", "awake", "satisfied",
            "ordering", "order_asleep", "order_awake", "ordered"}

Unresolved(w) == wait[w].pc \in {"queued", "asleep", "awake"}

PendingUpdateType ==
  [virtual_value : Values, update_count : 1..MaxUpdates,
   vk_semaphore : VkQueues, vk_semaphore_value : {0}]

TicketType == [ticket : Nat, virtual_value : Values]

EventType == [value : Values, key : Handles \cup NullThreads]

FenceType ==
  [virtual_value : Values, max_pending : Values,
   signal_count : 0..MaxUpdates, update_count : 0..MaxUpdates,
   pending_updates : SUBSET PendingUpdateType,
   wait_tickets : SUBSET TicketType, wait_ticket_counter : Nat,
   events : SUBSET EventType]

WaitType == [pc : WaitPCs, value : Values, ticket : Nat,
             update : 0..MaxUpdates, reached : BOOLEAN]

NullWaitType == [pc : {"idle", "asleep", "awake", "done"},
                 latch : BOOLEAN, value : Values]

\* Every variable keeps the shape of its C declaration.
TypeOK ==
  /\ fence \in FenceType
  /\ wait \in [Waits -> WaitType]
  /\ null_wait \in [NullThreads -> NullWaitType]
  /\ signalled \subseteq Handles
  /\ in_worker \subseteq 1..MaxUpdates
  /\ released \in BOOLEAN

\* Rewinds included, max_pending is the largest value that is reached or
\* scheduled: too small and a submission thread sleeps for ever, too large
\* and it submits a GPU wait that nothing signals.
MaxPendingIsExact ==
  /\ fence.max_pending \in ScheduledValues(fence)
  /\ \A v \in ScheduledValues(fence) : v <= fence.max_pending

\* Exactly the updates after signal_count are pending, each once: d3d12_fence_signal
\* finds every update it looks for and never applies one twice.
UpdatesAreContiguous ==
  /\ fence.signal_count <= fence.update_count
  /\ {u.update_count : u \in fence.pending_updates}
        = (fence.signal_count + 1)..fence.update_count
  /\ \A u, v \in fence.pending_updates : u.update_count = v.update_count => u = v

\* The fence's record of what is on its way is right: the list and its maximum.
PendingListIsRight == TypeOK /\ MaxPendingIsExact /\ UpdatesAreContiguous

\* A queued wait keeps its ticket exactly as long as the fence did not hold a
\* satisfying value since the application called Wait, however often the
\* fence rewound before the submission thread looked at it.
TicketIffUnsatisfied ==
  \A w \in Waits : Unresolved(w) =>
    (HasTicket(fence, wait[w].ticket) <=> ~wait[w].reached)

\* A wait dropped without a GPU wait really saw its value.
SatisfiedWasReached ==
  \A w \in Waits : wait[w].pc = "satisfied" => wait[w].reached

\* The assertion "update_count != UINT64_MAX": a wait that does not have to
\* sleep, and was not satisfied, finds an update to wait for.
SatisfyingUpdateExists ==
  \A w \in Waits :
    /\ Unblocked(w)
    /\ HasTicket(fence, wait[w].ticket)
    /\ ~MustBlock(fence, wait[w].value)
    => Resolutions(fence, wait[w].value, QueueOf[w]) # {}

\* No thread sleeps on a condition that is already true: the broadcasts of
\* fence->cond and null_event_cond reach everyone they concern.
NoLostWakeup ==
  /\ \A w \in Waits :
       /\ wait[w].pc = "asleep" =>
            HasTicket(fence, wait[w].ticket) /\ MustBlock(fence, wait[w].value)
       /\ wait[w].pc = "order_asleep" => fence.signal_count < wait[w].update
  /\ \A t \in NullThreads : null_wait[t].pc = "asleep" => ~null_wait[t].latch

\* A fence worker that is held back by an update is held back by one that
\* some other worker still has to apply.
UpdateHasSignaller ==
  \A w \in Waits :
    wait[w].pc \in {"ordering", "order_asleep", "order_awake"} =>
      \/ wait[w].update <= fence.signal_count
      \/ wait[w].update \in in_worker

\* An event stays registered only while its value is ahead of the fence, and
\* a thread that still blocks is in the list of events.
EventsAreUnsatisfied ==
  /\ \A e \in fence.events : e.value > fence.virtual_value
  /\ \A t \in NullThreads :
       null_wait[t].pc \in {"asleep", "awake"} /\ ~null_wait[t].latch =>
         [value |-> null_wait[t].value, key |-> t] \in fence.events

\* Tickets are numbered apart, carry the value of their wait, and are only
\* held for values the fence does not have.
TicketsAreOwned ==
  /\ \A t \in fence.wait_tickets :
       t.ticket <= fence.wait_ticket_counter /\ fence.virtual_value < t.virtual_value
  /\ \A w \in Waits : Unresolved(w) =>
       /\ wait[w].ticket \in 1..fence.wait_ticket_counter
       /\ \A t \in fence.wait_tickets :
            t.ticket = wait[w].ticket => t.virtual_value = wait[w].value
  /\ \A w, v \in Waits :
       Unresolved(w) /\ Unresolved(v) /\ wait[w].ticket = wait[v].ticket => w = v

\* Every pending update has a fence worker to apply it; nobody is held back by,
\* or called for, an update that was never scheduled.
UpdatesAreInWorkers ==
  /\ (fence.signal_count + 1)..fence.update_count \subseteq in_worker
  /\ in_worker \subseteq 1..fence.update_count
  /\ \A w \in Waits : wait[w].update <= fence.update_count

\* The inductive invariant behind the ones above.
IInv ==
  /\ TypeOK
  /\ MaxPendingIsExact
  /\ UpdatesAreContiguous
  /\ UpdatesAreInWorkers
  /\ TicketsAreOwned
  /\ TicketIffUnsatisfied
  /\ SatisfiedWasReached
  /\ NoLostWakeup
  /\ EventsAreUnsatisfied

\* "When a fence's public ref-count hits zero, all waiters must be released":
\* also those that were queued or scheduled before and run later.
ReleaseUnblocksEveryone ==
  released ~> /\ \A w \in Waits : wait[w].pc \in {"idle", "satisfied", "ordered"}
              /\ \A t \in NullThreads : null_wait[t].pc \in {"idle", "done"}

\* A queue wait whose value was scheduled at some moment gets through, even
\* if the application or the GPU rewinds the fence afterwards.
ScheduledWaitGetsThrough ==
  \A w \in Waits :
    Unresolved(w) /\ wait[w].value <= fence.max_pending
      ~> wait[w].pc \in {"satisfied", "ordered"}

=============================================================================
