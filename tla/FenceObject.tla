----------------------------- MODULE FenceObject -----------------------------
(***************************************************************************)
(* The critical sections of struct d3d12_fence (libs/vkd3d/command.c) as   *)
(* functions from one fence record to the next.  Everything the code does  *)
(* between locking and unlocking fence->mutex is one operator; who calls   *)
(* it, and when, is the business of the modules that use this one.         *)
(*                                                                         *)
(* The arrays pending_updates, wait_tickets and events are removed from by *)
(* swapping in the last element, so their order carries no meaning: they   *)
(* are sets here, and "the first match in the array" is any match.         *)
(***************************************************************************)
EXTENDS Integers, FiniteSetsExt

NewFence(initial) ==
  [virtual_value |-> initial, max_pending |-> initial,
   signal_count |-> 0, update_count |-> 0, pending_updates |-> {},
   wait_tickets |-> {}, wait_ticket_counter |-> 0, events |-> {}]

\* Values that are scheduled, or already reached.
ScheduledValues(f) ==
  {f.virtual_value} \cup {u.virtual_value : u \in f.pending_updates}

UpdatePendingValue(f) == [f EXCEPT !.max_pending = Max(ScheduledValues(f))]

\* Faulty variant: wait tickets are not updated when a value is taken.
Reach_EventsOnly(f, vals) ==
  [f EXCEPT !.events = {e \in @ : \A v \in vals : v < e.value}]

\* The fence takes the values of vals, one after the other: an event or a
\* ticket is gone as soon as one of them satisfies it, whatever follows.
Reach(f, vals) ==
  [f EXCEPT !.events       = {e \in @ : \A v \in vals : v < e.value},
            !.wait_tickets = {t \in @ : \A v \in vals : v < t.virtual_value}]

\* Events that the values of vals signal.
EventsReached(f, vals) == {e \in f.events : \E v \in vals : e.value <= v}

-----------------------------------------------------------------------------
(* Signals.                                                                *)

CpuSignal(f, value) ==
  UpdatePendingValue(Reach([f EXCEPT !.virtual_value = value], {value}))

NextUpdate(f, value, semaphore, semaphore_value) ==
  [virtual_value |-> value, update_count |-> f.update_count + 1,
   vk_semaphore |-> semaphore, vk_semaphore_value |-> semaphore_value]

\* The submission thread of a command queue schedules a GPU signal.
AddPendingSignal(f, value, semaphore, semaphore_value) ==
  UpdatePendingValue(
    [f EXCEPT !.update_count = @ + 1,
              !.pending_updates =
                  @ \cup {NextUpdate(f, value, semaphore, semaphore_value)}])

\* The updates a fence worker applies on behalf of update number n: its own
\* and every earlier one that nobody applied yet.
Applied(f, n) ==
  {u \in f.pending_updates : f.signal_count < u.update_count /\ u.update_count <= n}

AppliedValues(f, n) == {u.virtual_value : u \in Applied(f, n)}

\* The update the loop applies last; its value is the one that stays.
LastApplied(f, n) ==
  CHOOSE u \in Applied(f, n) :
    \A w \in Applied(f, n) : w.update_count <= u.update_count

\* Faulty variant: max_pending is not recomputed after a GPU rewind.
Signal_KeepsMaximum(f, n) ==
  Reach(
    [f EXCEPT !.signal_count = IF n > @ THEN n ELSE @,
              !.virtual_value = IF Applied(f, n) = {} THEN @
                                ELSE LastApplied(f, n).virtual_value,
              !.pending_updates = @ \ Applied(f, n)],
    AppliedValues(f, n))

Signal(f, n) ==
  UpdatePendingValue(Reach(
    [f EXCEPT !.signal_count = IF n > @ THEN n ELSE @,
              !.virtual_value = IF Applied(f, n) = {} THEN @
                                ELSE LastApplied(f, n).virtual_value,
              !.pending_updates = @ \ Applied(f, n)],
    AppliedValues(f, n)))

-----------------------------------------------------------------------------
(* Queue waits.                                                            *)

\* Faulty variant: a ticket is taken even if the wait is already satisfied.
RegisterWait_Always(f, value) ==
  [f EXCEPT !.wait_ticket_counter = @ + 1,
            !.wait_tickets = @ \cup {[ticket |-> f.wait_ticket_counter + 1,
                                      virtual_value |-> value]}]

\* Faulty variant: no ticket is taken for a value that is on its way.
RegisterWait_IfNotPending(f, value) ==
  [f EXCEPT !.wait_ticket_counter = @ + 1,
            !.wait_tickets =
                IF f.max_pending < value
                THEN @ \cup {[ticket |-> f.wait_ticket_counter + 1,
                              virtual_value |-> value]}
                ELSE @]

\* ID3D12CommandQueue::Wait registers a ticket unless the wait is satisfied.
RegisterWait(f, value) ==
  [f EXCEPT !.wait_ticket_counter = @ + 1,
            !.wait_tickets =
                IF f.virtual_value < value
                THEN @ \cup {[ticket |-> f.wait_ticket_counter + 1,
                              virtual_value |-> value]}
                ELSE @]

HasTicket(f, ticket) == \E t \in f.wait_tickets : t.ticket = ticket

ConsumeTicket(f, ticket) ==
  [f EXCEPT !.wait_tickets = {t \in @ : t.ticket # ticket}]

\* No submitted signal and no reached value can satisfy the wait yet.
MustBlock(f, value) == value > f.max_pending

\* Faulty variant: an update that signals exactly the awaited value is ignored.
Satisfying_Strictly(f, value) == {u \in f.pending_updates : u.virtual_value > value}

\* Faulty variant: any scheduled update will do, as if the fence never rewound.
Satisfying_Any(f, value) == f.pending_updates

Satisfying(f, value) == {u \in f.pending_updates : u.virtual_value >= value}

OnQueue(updates, semaphore) == {u \in updates : u.vk_semaphore = semaphore}

\* The update a wait is resolved to: any satisfying one of the waiter's own
\* VkQueue, else the satisfying one that was scheduled first.
Resolutions(f, value, semaphore) ==
  LET all == Satisfying(f, value)
  IN  IF OnQueue(all, semaphore) # {} THEN OnQueue(all, semaphore)
      ELSE {u \in all : \A w \in all : u.update_count <= w.update_count}

-----------------------------------------------------------------------------
(* Events.                                                                 *)

AddEvent(f, event) == [f EXCEPT !.events = @ \cup {event}]
=============================================================================
