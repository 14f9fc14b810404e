--------------------------- MODULE D3D12FenceProofs ---------------------------
(***************************************************************************)
(* Proofs about one fence, for any number of waits, threads, VkQueues,     *)
(* values and updates: its invariants, and that it implements its contract. *)
(***************************************************************************)
EXTENDS D3D12FenceContract, FiniteSetTheorems, TLAPS

-----------------------------------------------------------------------------
(* Data.                                                                   *)

(* A bounded, non-empty set of natural numbers has a largest and a least   *)
(* element.  (The intervals x..N are finite sets; a minimal one of them,   *)
(* under strict inclusion, belongs to the largest x.)                      *)

LEMMA MaxOfBounded ==
  ASSUME NEW N \in Nat, NEW S \in SUBSET (0..N), S # {}
  PROVE  Max(S) \in S /\ \A y \in S : y <= Max(S)
<1> DEFINE T == {x..N : x \in S}
<1>1. \A x \in S : x \in 0..N /\ x..N \in SUBSET Nat /\ IsFiniteSet(x..N)
  <2> TAKE x \in S
  <2>1. x \in 0..N
    OBVIOUS
  <2>2. IsFiniteSet(x..N)
    BY <2>1, FS_Interval
  <2> QED BY <2>1, <2>2
<1>2. T \subseteq FiniteSubsetsOf(Nat)
  BY <1>1, Zenon DEF FiniteSubsetsOf
<1>3. T # {}
  OBVIOUS
<1> HIDE DEF T
<1>4. PICK t \in T : \A u \in T : ~(<<u, t>> \in StrictSubsetOrdering(Nat))
  BY <1>2, <1>3, FS_StrictSubsetOrderingWellFounded, WFMin, Zenon
<1>5. PICK x \in S : t = x..N
  BY <1>4, Zenon DEF T
<1>6. \A y \in S : y <= x
  <2> SUFFICES ASSUME NEW y \in S, ~(y <= x) PROVE FALSE
    OBVIOUS
  <2>1. x < y /\ x \in 0..N /\ y \in 0..N
    BY <1>1
  <2>2. y..N \subseteq x..N /\ x \in x..N /\ x \notin y..N
    BY <2>1
  <2>3. y..N \in SUBSET Nat /\ x..N \in SUBSET Nat
    BY <1>1, Zenon
  <2>4. <<y..N, x..N>> \in StrictSubsetOrdering(Nat)
    BY <2>2, <2>3 DEF StrictSubsetOrdering
  <2>5. y..N \in T
    BY Zenon DEF T
  <2> QED BY <1>4, <1>5, <2>4, <2>5, Zenon
<1>7. \A y \in S : x >= y
  BY <1>1, <1>6
<1>8. Max(S) \in S /\ \A y \in S : Max(S) >= y
  BY <1>7 DEF Max
<1> QED BY <1>8, <1>1

LEMMA LeastOfBounded ==
  ASSUME NEW N \in Nat, NEW S \in SUBSET (0..N), S # {}
  PROVE  \E x \in S : \A y \in S : x <= y
<1> DEFINE M == {N - x : x \in S}
<1>1. M \in SUBSET (0..N) /\ M # {}
  <2>1. ASSUME NEW x \in S PROVE N - x \in 0..N
    OBVIOUS
  <2>2. PICK x : x \in S
    OBVIOUS
  <2>3. N - x \in M
    BY <2>2
  <2> QED BY <2>1, <2>3, Zenon
<1>2. Max(M) \in M /\ \A y \in M : y <= Max(M)
  BY <1>1, MaxOfBounded
<1>3. PICK x \in S : Max(M) = N - x
  BY <1>2
<1>4. \A y \in S : x <= y
  <2> TAKE y \in S
  <2>1. N - y <= N - x
    BY <1>2, <1>3
  <2> QED BY <2>1
<1> QED BY <1>4


-----------------------------------------------------------------------------
(* What the critical sections of a fence do to its fields.                 *)

LEMMA ScheduledValuesType ==
  ASSUME NEW f \in FenceType
  PROVE  ScheduledValues(f) \in SUBSET (0..UINT64_MAX) /\ ScheduledValues(f) # {}
BY DEF ScheduledValues, FenceType, PendingUpdateType, Values

\* Recomputing max_pending makes it exact and touches nothing else.
LEMMA UpdatePendingValueFields ==
  ASSUME NEW f \in FenceType
  PROVE  LET g == UpdatePendingValue(f) IN
         /\ g \in FenceType
         /\ g.max_pending \in ScheduledValues(f)
         /\ \A v \in ScheduledValues(f) : v <= g.max_pending
         /\ g.virtual_value = f.virtual_value
         /\ g.signal_count = f.signal_count /\ g.update_count = f.update_count
         /\ g.pending_updates = f.pending_updates
         /\ g.wait_tickets = f.wait_tickets
         /\ g.wait_ticket_counter = f.wait_ticket_counter
         /\ g.events = f.events
<1> DEFINE m == Max(ScheduledValues(f))
<1>1. m \in ScheduledValues(f) /\ \A v \in ScheduledValues(f) : v <= m
  BY ScheduledValuesType, MaxOfBounded, UINT64_MAX_Assumption
<1>2. m \in Values
  BY <1>1, ScheduledValuesType DEF Values
<1> HIDE DEF m
<1>3. UpdatePendingValue(f) = [f EXCEPT !.max_pending = m]
  BY DEF UpdatePendingValue, m
<1> QED BY <1>1, <1>2, <1>3 DEF FenceType

\* Taking values removes the events and tickets they satisfy, nothing else.
LEMMA ReachFields ==
  ASSUME NEW f \in FenceType, NEW vals
  PROVE  LET g == Reach(f, vals) IN
         /\ g \in FenceType
         /\ g.virtual_value = f.virtual_value
         /\ g.signal_count = f.signal_count /\ g.update_count = f.update_count
         /\ g.pending_updates = f.pending_updates
         /\ g.wait_ticket_counter = f.wait_ticket_counter
         /\ g.wait_tickets = {t \in f.wait_tickets : \A v \in vals : v < t.virtual_value}
         /\ g.events = {e \in f.events : \A v \in vals : v < e.value}
<1> DEFINE E == {e \in f.events : \A v \in vals : v < e.value}
           T == {t \in f.wait_tickets : \A v \in vals : v < t.virtual_value}
<1>1. Reach(f, vals) = [f EXCEPT !.events = E, !.wait_tickets = T]
  BY DEF Reach, FenceType
<1>2. E \in SUBSET EventType /\ T \in SUBSET TicketType
  BY DEF FenceType
<1> HIDE DEF E, T
<1>3. /\ [f EXCEPT !.events = E, !.wait_tickets = T] \in FenceType
      /\ [f EXCEPT !.events = E, !.wait_tickets = T].events = E
      /\ [f EXCEPT !.events = E, !.wait_tickets = T].wait_tickets = T
  BY <1>2 DEF FenceType
<1> QED BY <1>1, <1>3 DEF FenceType, E, T

LEMMA CpuSignalFields ==
  ASSUME NEW f \in FenceType, NEW value \in Values
  PROVE  LET g == CpuSignal(f, value) IN
         /\ g \in FenceType
         /\ g.max_pending \in ScheduledValues(g)
         /\ \A v \in ScheduledValues(g) : v <= g.max_pending
         /\ g.virtual_value = value
         /\ g.signal_count = f.signal_count /\ g.update_count = f.update_count
         /\ g.pending_updates = f.pending_updates
         /\ g.wait_ticket_counter = f.wait_ticket_counter
         /\ g.wait_tickets = {t \in f.wait_tickets : \A v \in {value} : v < t.virtual_value}
         /\ g.events = {e \in f.events : \A v \in {value} : v < e.value}
<1> DEFINE h == [f EXCEPT !.virtual_value = value]
           k == Reach(h, {value})
<1>1. /\ h \in FenceType /\ h.virtual_value = value
      /\ h.signal_count = f.signal_count /\ h.update_count = f.update_count
      /\ h.pending_updates = f.pending_updates /\ h.events = f.events
      /\ h.wait_ticket_counter = f.wait_ticket_counter /\ h.wait_tickets = f.wait_tickets
  BY DEF FenceType
<1> HIDE DEF h
<1>2. k \in FenceType
  BY <1>1, ReachFields
<1>3. CpuSignal(f, value) = UpdatePendingValue(k)
  BY DEF CpuSignal, h
<1>4. ScheduledValues(UpdatePendingValue(k)) = ScheduledValues(k)
  BY <1>2, UpdatePendingValueFields DEF ScheduledValues
<1>5. /\ k.virtual_value = value
      /\ k.signal_count = f.signal_count /\ k.update_count = f.update_count
      /\ k.pending_updates = f.pending_updates
      /\ k.wait_ticket_counter = f.wait_ticket_counter
      /\ k.wait_tickets = {t \in f.wait_tickets : \A v \in {value} : v < t.virtual_value}
      /\ k.events = {e \in f.events : \A v \in {value} : v < e.value}
  BY <1>1, ReachFields
<1> HIDE DEF k
<1> QED BY <1>2, <1>3, <1>4, <1>5, UpdatePendingValueFields

LEMMA AddPendingSignalFields ==
  ASSUME NEW f \in FenceType, NEW value \in Values, NEW q \in VkQueues,
         f.update_count < MaxUpdates
  PROVE  LET g == AddPendingSignal(f, value, q, 0) IN
         /\ g \in FenceType
         /\ g.max_pending \in ScheduledValues(g)
         /\ \A v \in ScheduledValues(g) : v <= g.max_pending
         /\ g.virtual_value = f.virtual_value
         /\ g.signal_count = f.signal_count
         /\ g.update_count = f.update_count + 1
         /\ g.pending_updates = f.pending_updates \cup {NextUpdate(f, value, q, 0)}
         /\ g.wait_ticket_counter = f.wait_ticket_counter
         /\ g.wait_tickets = f.wait_tickets
         /\ g.events = f.events
<1> DEFINE u == NextUpdate(f, value, q, 0)
           h == [f EXCEPT !.update_count = @ + 1, !.pending_updates = @ \cup {u}]
<1>1. u \in PendingUpdateType
  BY MaxUpdatesAssumption DEF NextUpdate, PendingUpdateType, FenceType
<1> HIDE DEF u
<1>a. /\ f.update_count + 1 \in 0..MaxUpdates
      /\ f.pending_updates \cup {u} \in SUBSET PendingUpdateType
  BY <1>1, MaxUpdatesAssumption DEF FenceType
<1>2. /\ h \in FenceType /\ h.virtual_value = f.virtual_value
      /\ h.signal_count = f.signal_count /\ h.update_count = f.update_count + 1
      /\ h.pending_updates = f.pending_updates \cup {u} /\ h.events = f.events
      /\ h.wait_ticket_counter = f.wait_ticket_counter /\ h.wait_tickets = f.wait_tickets
  BY <1>a DEF FenceType
<1>3. AddPendingSignal(f, value, q, 0) = UpdatePendingValue(h)
  BY DEF AddPendingSignal, u
<1> HIDE DEF h
<1>4. ScheduledValues(UpdatePendingValue(h)) = ScheduledValues(h)
  BY <1>2, UpdatePendingValueFields DEF ScheduledValues
<1> QED BY <1>2, <1>3, <1>4, UpdatePendingValueFields DEF u

\* The update applied last is the one the worker was called for.
LEMMA LastAppliedIsOwn ==
  ASSUME NEW f \in FenceType, NEW n \in Nat, NEW u \in f.pending_updates,
         f.signal_count < n, u.update_count = n,
         \A v, w \in f.pending_updates : v.update_count = w.update_count => v = w
  PROVE  LastApplied(f, n) = u
<1>1. \A w \in f.pending_updates : w.update_count \in Nat
  BY DEF FenceType, PendingUpdateType
<1>2. u \in Applied(f, n) /\ \A w \in Applied(f, n) : w.update_count <= u.update_count
  BY <1>1 DEF Applied, FenceType
<1>3. \A x \in Applied(f, n) :
        (\A w \in Applied(f, n) : w.update_count <= x.update_count) => x = u
  <2> TAKE x \in Applied(f, n)
  <2> HAVE \A w \in Applied(f, n) : w.update_count <= x.update_count
  <2>1. x \in f.pending_updates /\ x.update_count <= n /\ n <= x.update_count
    BY <1>2 DEF Applied
  <2>2. x.update_count = u.update_count
    BY <2>1, <1>1
  <2> QED BY <2>1, <2>2
<1> QED BY <1>2, <1>3 DEF LastApplied

\* A fence worker called for update n applies every update up to n.
LEMMA SignalFields ==
  ASSUME NEW f \in FenceType, NEW n \in 1..f.update_count,
         {u.update_count : u \in f.pending_updates} = (f.signal_count + 1)..f.update_count,
         \A u, v \in f.pending_updates : u.update_count = v.update_count => u = v
  PROVE  LET g == Signal(f, n) IN
         /\ g \in FenceType
         /\ g.max_pending \in ScheduledValues(g)
         /\ \A v \in ScheduledValues(g) : v <= g.max_pending
         /\ g.virtual_value \in AppliedValues(f, n) \cup {f.virtual_value}
         /\ AppliedValues(f, n) # {} => g.virtual_value \in AppliedValues(f, n)
         /\ g.signal_count = IF n > f.signal_count THEN n ELSE f.signal_count
         /\ g.update_count = f.update_count
         /\ g.pending_updates = f.pending_updates \ Applied(f, n)
         /\ g.wait_ticket_counter = f.wait_ticket_counter
         /\ g.wait_tickets = {t \in f.wait_tickets : \A v \in AppliedValues(f, n) : v < t.virtual_value}
         /\ g.events = {e \in f.events : \A v \in AppliedValues(f, n) : v < e.value}
<1> DEFINE s == IF n > f.signal_count THEN n ELSE f.signal_count
           v == IF Applied(f, n) = {} THEN f.virtual_value ELSE LastApplied(f, n).virtual_value
           p == f.pending_updates \ Applied(f, n)
           h == [f EXCEPT !.signal_count = s, !.virtual_value = v, !.pending_updates = p]
           k == Reach(h, AppliedValues(f, n))
<1>1. s \in 0..MaxUpdates
  BY MaxUpdatesAssumption DEF FenceType
<1>2. Applied(f, n) # {} => LastApplied(f, n) \in Applied(f, n)
  <2> SUFFICES ASSUME NEW a \in Applied(f, n) PROVE LastApplied(f, n) \in Applied(f, n)
    OBVIOUS
  <2>1. f.signal_count < n /\ n \in (f.signal_count + 1)..f.update_count
    BY MaxUpdatesAssumption DEF Applied, FenceType, PendingUpdateType
  <2>2. PICK u \in f.pending_updates : u.update_count = n
    BY <2>1
  <2>3. LastApplied(f, n) = u
    BY <2>1, <2>2, LastAppliedIsOwn
  <2> QED BY <2>1, <2>2, <2>3 DEF Applied
<1>3. v \in Values /\ v \in AppliedValues(f, n) \cup {f.virtual_value}
      /\ (AppliedValues(f, n) # {} => v \in AppliedValues(f, n))
  BY <1>2 DEF AppliedValues, Applied, FenceType, PendingUpdateType
<1>4. p \in SUBSET PendingUpdateType
  BY DEF FenceType
<1>5. Signal(f, n) = UpdatePendingValue(k)
  BY DEF Signal
<1> HIDE DEF s, v, p
<1>6. /\ h \in FenceType /\ h.virtual_value = v
      /\ h.signal_count = s /\ h.update_count = f.update_count
      /\ h.pending_updates = p /\ h.events = f.events
      /\ h.wait_ticket_counter = f.wait_ticket_counter /\ h.wait_tickets = f.wait_tickets
  BY <1>1, <1>3, <1>4 DEF FenceType
<1> HIDE DEF h
<1>7. /\ k \in FenceType
      /\ k.virtual_value = v
      /\ k.signal_count = s /\ k.update_count = f.update_count
      /\ k.pending_updates = p
      /\ k.wait_ticket_counter = f.wait_ticket_counter
      /\ k.wait_tickets = {t \in f.wait_tickets : \A x \in AppliedValues(f, n) : x < t.virtual_value}
      /\ k.events = {e \in f.events : \A x \in AppliedValues(f, n) : x < e.value}
  BY <1>6, ReachFields
<1> HIDE DEF k
<1>8. ScheduledValues(UpdatePendingValue(k)) = ScheduledValues(k)
  BY <1>7, UpdatePendingValueFields DEF ScheduledValues
<1> QED BY <1>3, <1>5, <1>7, <1>8, UpdatePendingValueFields DEF s, p

-----------------------------------------------------------------------------
(* The invariant.                                                          *)

LEMMA InitIInv == Init => IInv
<1> SUFFICES ASSUME Init PROVE IInv
  OBVIOUS
<1>1. PICK initial \in Values : fence = NewFence(initial)
  BY DEF Init
<1>2. fence \in FenceType
  BY <1>1, MaxUpdatesAssumption DEF NewFence, FenceType
<1>3. TypeOK
  <2>1. IdleWait \in WaitType
    BY UINT64_MAX_Assumption, MaxUpdatesAssumption DEF IdleWait, WaitType, WaitPCs, Values
  <2>2. IdleNullWait \in NullWaitType
    BY UINT64_MAX_Assumption DEF IdleNullWait, NullWaitType, Values
  <2> QED BY <1>2, <2>1, <2>2 DEF Init, TypeOK
<1>4. MaxPendingIsExact
  BY <1>1 DEF MaxPendingIsExact, ScheduledValues, NewFence, Values
<1>5. UpdatesAreContiguous /\ UpdatesAreInWorkers
  BY <1>1 DEF Init, UpdatesAreContiguous, UpdatesAreInWorkers, NewFence, IdleWait
<1>6. TicketsAreOwned /\ TicketIffUnsatisfied /\ SatisfiedWasReached
  BY <1>1 DEF Init, TicketsAreOwned, TicketIffUnsatisfied, SatisfiedWasReached,
              Unresolved, NewFence, IdleWait
<1>7. NoLostWakeup /\ EventsAreUnsatisfied
  BY <1>1 DEF Init, NoLostWakeup, EventsAreUnsatisfied, NewFence, IdleWait, IdleNullWait
<1> QED BY <1>3, <1>4, <1>5, <1>6, <1>7 DEF IInv

\* What every step that makes the fence take values has in common: it removes
\* what they satisfy and wakes everyone up.
LEMMA TakingValues ==
  ASSUME IInv, NEW vals \in SUBSET Values,
         fence' \in FenceType,
         fence'.virtual_value \in vals \cup {fence.virtual_value},
         vals # {} => fence'.virtual_value \in vals,
         fence'.wait_ticket_counter = fence.wait_ticket_counter,
         fence'.wait_tickets = {t \in fence.wait_tickets : \A v \in vals : v < t.virtual_value},
         fence'.events = {e \in fence.events : \A v \in vals : v < e.value},
         NotifyWaits(vals), SignalEvents(vals)
  PROVE  /\ wait' \in [Waits -> WaitType]
         /\ null_wait' \in [NullThreads -> NullWaitType]
         /\ signalled' \subseteq Handles
         /\ TicketsAreOwned' /\ TicketIffUnsatisfied' /\ SatisfiedWasReached'
         /\ NoLostWakeup' /\ EventsAreUnsatisfied'
         /\ \A w \in Waits : wait'[w].update = wait[w].update
<1> USE DEF IInv
<1>1. /\ wait' \in [Waits -> WaitType]
      /\ \A w \in Waits :
           /\ wait'[w].update = wait[w].update /\ wait'[w].ticket = wait[w].ticket
           /\ wait'[w].value = wait[w].value
           /\ wait'[w].pc = Broadcast(wait[w].pc)
           /\ wait'[w].reached = Observe(wait[w], vals)
  <2>1. /\ wait' = [w \in Waits |-> [wait[w] EXCEPT !.pc = Broadcast(wait[w].pc),
                                                  !.reached = Observe(wait[w], vals)]]
        /\ \A w \in Waits : wait[w] \in WaitType
    BY DEF NotifyWaits, TypeOK
  <2>2. \A w \in Waits : Broadcast(wait[w].pc) \in WaitPCs
    BY <2>1 DEF Broadcast, WaitPCs, WaitType
  <2>3. \A w \in Waits : Observe(wait[w], vals) \in BOOLEAN
    BY <2>1 DEF Observe, WaitType
  <2> QED BY <2>1, <2>2, <2>3 DEF WaitType
<1>2. \A w \in Waits : Unresolved(w)' <=> Unresolved(w)
  BY <1>1 DEF Unresolved, Broadcast
<1>3. /\ \A t \in fence.wait_tickets : t.virtual_value \in Values /\ t.ticket \in Nat
      /\ \A e \in fence.events : e.value \in Values
      /\ \A w \in Waits : wait[w].value \in Values /\ wait[w].reached \in BOOLEAN
      /\ \A v \in vals : v \in Values
  BY DEF TypeOK, FenceType, TicketType, EventType, WaitType
<1>4. TicketsAreOwned'
  BY <1>1, <1>2, <1>3 DEF TicketsAreOwned, Values
<1>5. TicketIffUnsatisfied'
  <2> SUFFICES ASSUME NEW w \in Waits, Unresolved(w)'
               PROVE  HasTicket(fence', wait'[w].ticket) <=> ~wait'[w].reached
    BY DEF TicketIffUnsatisfied
  <2>1. Unresolved(w) /\ (HasTicket(fence, wait[w].ticket) <=> ~wait[w].reached)
    BY <1>2 DEF TicketIffUnsatisfied
  <2>2. HasTicket(fence', wait[w].ticket)
          <=> HasTicket(fence, wait[w].ticket) /\ \A v \in vals : v < wait[w].value
    BY <2>1 DEF HasTicket, TicketsAreOwned
  <2>3. (\A v \in vals : v < wait[w].value) <=> ~(\E v \in vals : wait[w].value <= v)
    BY <1>3 DEF Values
  <2>4. wait'[w].reached <=> (wait[w].reached \/ \E v \in vals : wait[w].value <= v)
    BY <1>1 DEF Observe
  <2> QED BY <1>1, <2>1, <2>2, <2>3, <2>4
<1>6. SatisfiedWasReached'
  BY <1>1 DEF SatisfiedWasReached, Broadcast, Observe
<1>7. /\ null_wait' \in [NullThreads -> NullWaitType]
      /\ signalled' \subseteq Handles
  BY DEF TypeOK, SignalEvents, NullWaitType
<1>8. \A e \in fence'.events : e.value > fence'.virtual_value
  BY <1>3 DEF EventsAreUnsatisfied, Values
<1>9. \A t \in NullThreads :
        /\ null_wait'[t].value = null_wait[t].value
        /\ null_wait'[t].latch <=> (null_wait[t].latch \/ \E e \in EventsReached(fence, vals) : e.key = t)
        /\ null_wait'[t].pc \in {"asleep", "awake"} => null_wait[t].pc \in {"asleep", "awake"}
        /\ null_wait'[t].pc = "asleep" =>
             null_wait[t].pc = "asleep" /\ ~\E e \in EventsReached(fence, vals) : e.key = t
  BY DEF TypeOK, SignalEvents, NullWaitType
<1>10. NoLostWakeup'
  <2>1. \A w \in Waits : wait'[w].pc \notin {"asleep", "order_asleep"}
    BY <1>1 DEF Broadcast
  <2>2. \A t \in NullThreads : null_wait'[t].pc = "asleep" => ~null_wait'[t].latch
    BY <1>9 DEF NoLostWakeup
  <2> QED BY <2>1, <2>2 DEF NoLostWakeup
<1>11. EventsAreUnsatisfied'
  <2> SUFFICES ASSUME NEW t \in NullThreads,
                      null_wait'[t].pc \in {"asleep", "awake"}, ~null_wait'[t].latch
               PROVE  [value |-> null_wait'[t].value, key |-> t] \in fence'.events
    BY <1>8 DEF EventsAreUnsatisfied
  <2> DEFINE e == [value |-> null_wait[t].value, key |-> t]
  <2>1. e \in fence.events
    BY <1>9 DEF EventsAreUnsatisfied
  <2>2. e \notin EventsReached(fence, vals)
    BY <1>9
  <2>3. \A v \in vals : v < e.value
    BY <1>3, <2>1, <2>2 DEF EventsReached, Values
  <2> QED BY <1>9, <2>1, <2>3
<1> QED BY <1>1, <1>4, <1>5, <1>6, <1>7, <1>10, <1>11

\* Applying updates leaves exactly the later ones pending.
LEMMA SignalUpdates ==
  ASSUME IInv, NEW n \in in_worker, FenceSignal(n)
  PROVE  UpdatesAreContiguous' /\ UpdatesAreInWorkers'
<1> USE DEF IInv
<1> DEFINE s == IF n > fence.signal_count THEN n ELSE fence.signal_count
<1>1. /\ fence' = Signal(fence, n) /\ in_worker' = in_worker \ {n}
      /\ fence \in FenceType /\ n \in 1..fence.update_count
      /\ wait \in [Waits -> WaitType]
  BY DEF FenceSignal, TypeOK, UpdatesAreInWorkers
<1>2. /\ fence'.signal_count = s /\ fence'.update_count = fence.update_count
      /\ fence'.pending_updates = fence.pending_updates \ Applied(fence, n)
  BY <1>1, SignalFields DEF UpdatesAreContiguous
<1>3. /\ fence.signal_count \in Nat /\ fence.update_count \in Nat /\ n \in Nat
      /\ \A u \in fence.pending_updates :
           u.update_count \in (fence.signal_count + 1)..fence.update_count
  BY <1>1 DEF FenceType, UpdatesAreContiguous
<1>4. \A u \in fence.pending_updates : u \notin Applied(fence, n) <=> u.update_count > s
  BY <1>3 DEF Applied
<1>5. UpdatesAreContiguous'
  <2>1. {u.update_count : u \in fence'.pending_updates} \subseteq (s + 1)..fence.update_count
    BY <1>2, <1>3, <1>4
  <2>2. ASSUME NEW c \in (s + 1)..fence.update_count
        PROVE  \E u \in fence'.pending_updates : u.update_count = c
    <3>1. c \in (fence.signal_count + 1)..fence.update_count /\ c > s
      BY <1>3
    <3>2. PICK u \in fence.pending_updates : u.update_count = c
      BY <3>1 DEF UpdatesAreContiguous
    <3> QED BY <1>2, <1>4, <3>1, <3>2
  <2>3. {u.update_count : u \in fence'.pending_updates} = (s + 1)..fence.update_count
    BY <2>1, <2>2
  <2>4. s <= fence.update_count
    BY <1>1, <1>3 DEF UpdatesAreContiguous
  <2> QED BY <1>2, <2>3, <2>4 DEF UpdatesAreContiguous
<1>6. UpdatesAreInWorkers'
  <2>1. \A w \in Waits : wait'[w].update = wait[w].update
    BY <1>1 DEF FenceSignal, NotifyWaits, WaitType
  <2>2. /\ (fence.signal_count + 1)..fence.update_count \subseteq in_worker
        /\ in_worker \subseteq 1..fence.update_count
        /\ \A w \in Waits : wait[w].update <= fence.update_count
    BY DEF UpdatesAreInWorkers
  <2>3. (s + 1)..fence.update_count \subseteq in_worker \ {n}
    BY <1>3, <2>2
  <2>4. in_worker \ {n} \subseteq 1..fence.update_count
    BY <2>2
  <2> HIDE DEF s
  <2> QED BY <1>1, <1>2, <2>1, <2>2, <2>3, <2>4 DEF UpdatesAreInWorkers
<1> QED BY <1>5, <1>6

\* The steps that take a value: CPU signals, the release, fence workers.
LEMMA SetValueIInv ==
  ASSUME IInv, NEW value \in Values, SetValue(value), in_worker' = in_worker,
         released' \in BOOLEAN
  PROVE  IInv'
<1> USE DEF IInv
<1>1. fence \in FenceType /\ fence' = CpuSignal(fence, value)
  BY DEF TypeOK, SetValue
<1>2. /\ fence' \in FenceType
      /\ fence'.virtual_value = value
      /\ fence'.signal_count = fence.signal_count /\ fence'.update_count = fence.update_count
      /\ fence'.pending_updates = fence.pending_updates
      /\ fence'.wait_ticket_counter = fence.wait_ticket_counter
      /\ fence'.wait_tickets = {t \in fence.wait_tickets : \A v \in {value} : v < t.virtual_value}
      /\ fence'.events = {e \in fence.events : \A v \in {value} : v < e.value}
      /\ MaxPendingIsExact'
  BY <1>1, CpuSignalFields DEF MaxPendingIsExact
<1>3. /\ wait' \in [Waits -> WaitType]
      /\ null_wait' \in [NullThreads -> NullWaitType]
      /\ signalled' \subseteq Handles
      /\ TicketsAreOwned' /\ TicketIffUnsatisfied' /\ SatisfiedWasReached'
      /\ NoLostWakeup' /\ EventsAreUnsatisfied'
      /\ \A w \in Waits : wait'[w].update = wait[w].update
  <2>1. NotifyWaits({value}) /\ SignalEvents({value})
    BY DEF SetValue
  <2>2. {value} \in SUBSET Values
    OBVIOUS
  <2> QED BY <1>2, <2>1, <2>2, TakingValues
<1>4. TypeOK'
  BY <1>2, <1>3 DEF TypeOK
<1>5. UpdatesAreContiguous' /\ UpdatesAreInWorkers'
  BY <1>2, <1>3 DEF UpdatesAreContiguous, UpdatesAreInWorkers
<1> QED BY <1>2, <1>3, <1>4, <1>5

LEMMA FenceSignalIInv ==
  ASSUME IInv, NEW n \in in_worker, FenceSignal(n)
  PROVE  IInv'
<1> USE DEF IInv
<1>1. /\ fence \in FenceType /\ fence' = Signal(fence, n)
      /\ n \in 1..fence.update_count
  BY DEF TypeOK, FenceSignal, UpdatesAreInWorkers
<1>2. /\ fence' \in FenceType
      /\ fence'.virtual_value \in AppliedValues(fence, n) \cup {fence.virtual_value}
      /\ AppliedValues(fence, n) # {} => fence'.virtual_value \in AppliedValues(fence, n)
      /\ fence'.wait_ticket_counter = fence.wait_ticket_counter
      /\ fence'.wait_tickets =
           {t \in fence.wait_tickets : \A v \in AppliedValues(fence, n) : v < t.virtual_value}
      /\ fence'.events =
           {e \in fence.events : \A v \in AppliedValues(fence, n) : v < e.value}
      /\ MaxPendingIsExact'
  BY <1>1, SignalFields DEF MaxPendingIsExact, UpdatesAreContiguous
<1>3. /\ wait' \in [Waits -> WaitType]
      /\ null_wait' \in [NullThreads -> NullWaitType]
      /\ signalled' \subseteq Handles
      /\ TicketsAreOwned' /\ TicketIffUnsatisfied' /\ SatisfiedWasReached'
      /\ NoLostWakeup' /\ EventsAreUnsatisfied'
  <2>1. NotifyWaits(AppliedValues(fence, n)) /\ SignalEvents(AppliedValues(fence, n))
    BY DEF FenceSignal
  <2>2. AppliedValues(fence, n) \in SUBSET Values
    BY <1>1 DEF AppliedValues, Applied, FenceType, PendingUpdateType
  <2> QED BY <1>2, <2>1, <2>2, TakingValues
<1>4. TypeOK'
  BY <1>2, <1>3 DEF TypeOK, FenceSignal
<1> QED BY <1>2, <1>3, <1>4, SignalUpdates

\* Scheduling a signal wakes everybody up but takes no value.
LEMMA ScheduleSignalIInv ==
  ASSUME IInv, NEW q \in VkQueues, NEW value \in Values, ScheduleSignal(q, value)
  PROVE  IInv'
<1> USE DEF IInv
<1> DEFINE u == NextUpdate(fence, value, q, 0)
<1>1. /\ fence \in FenceType /\ fence.update_count < MaxUpdates
      /\ fence' = AddPendingSignal(fence, value, q, 0)
      /\ in_worker' = in_worker \cup {fence.update_count + 1}
      /\ released' = released /\ signalled' = signalled /\ null_wait' = null_wait
  BY DEF TypeOK, ScheduleSignal
<1>2. /\ fence' \in FenceType /\ MaxPendingIsExact'
      /\ fence'.virtual_value = fence.virtual_value
      /\ fence'.signal_count = fence.signal_count
      /\ fence'.update_count = fence.update_count + 1
      /\ fence'.pending_updates = fence.pending_updates \cup {u}
      /\ fence'.wait_ticket_counter = fence.wait_ticket_counter
      /\ fence'.wait_tickets = fence.wait_tickets
      /\ fence'.events = fence.events
  BY <1>1, AddPendingSignalFields DEF MaxPendingIsExact
<1>3. /\ wait' \in [Waits -> WaitType]
      /\ \A w \in Waits :
           /\ wait'[w].update = wait[w].update /\ wait'[w].ticket = wait[w].ticket
           /\ wait'[w].value = wait[w].value /\ wait'[w].reached = wait[w].reached
           /\ wait'[w].pc = Broadcast(wait[w].pc)
  <2>1. /\ wait' = [w \in Waits |-> [wait[w] EXCEPT !.pc = Broadcast(wait[w].pc),
                                                  !.reached = Observe(wait[w], {})]]
        /\ \A w \in Waits : wait[w] \in WaitType
    BY DEF ScheduleSignal, NotifyWaits, TypeOK
  <2>2. \A w \in Waits : Broadcast(wait[w].pc) \in WaitPCs
    BY <2>1 DEF Broadcast, WaitPCs, WaitType
  <2>3. \A w \in Waits : Observe(wait[w], {}) = wait[w].reached
    BY <2>1 DEF Observe, WaitType
  <2> QED BY <2>1, <2>2, <2>3 DEF WaitType
<1>4. TypeOK'
  <2>1. fence.update_count + 1 \in 1..MaxUpdates
    BY <1>1, MaxUpdatesAssumption DEF FenceType
  <2> QED BY <1>1, <1>2, <1>3, <2>1 DEF TypeOK
<1>5. /\ fence.signal_count \in Nat /\ fence.update_count \in Nat
      /\ fence.signal_count <= fence.update_count
      /\ u.update_count = fence.update_count + 1
      /\ \A w \in Waits : wait[w].update \in Nat
      /\ \A x \in fence.pending_updates : x.update_count \in Nat /\ x.update_count <= fence.update_count
  <2>1. /\ fence.signal_count \in Nat /\ fence.update_count \in Nat
        /\ \A x \in fence.pending_updates : x.update_count \in Nat /\ x.update_count <= fence.update_count
    BY <1>1 DEF FenceType, UpdatesAreContiguous
  <2>2. fence.signal_count <= fence.update_count
    BY DEF UpdatesAreContiguous
  <2> QED BY <2>1, <2>2 DEF NextUpdate, TypeOK, WaitType
<1>6. UpdatesAreContiguous'
  BY <1>2, <1>5 DEF UpdatesAreContiguous
<1>7. UpdatesAreInWorkers'
  <2>1. \A w \in Waits : wait'[w].update <= fence.update_count + 1
    BY <1>3, <1>5 DEF UpdatesAreInWorkers
  <2>2. (fence.signal_count + 1)..(fence.update_count + 1) \subseteq in_worker \cup {fence.update_count + 1}
    BY <1>5 DEF UpdatesAreInWorkers
  <2>3. in_worker \cup {fence.update_count + 1} \subseteq 1..(fence.update_count + 1)
    <3>1. \A n \in in_worker : n \in 1..(fence.update_count + 1)
      BY <1>5 DEF UpdatesAreInWorkers
    <3>2. fence.update_count + 1 \in 1..(fence.update_count + 1)
      BY <1>5
    <3> QED BY <3>1, <3>2
  <2> QED BY <1>1, <1>2, <2>1, <2>2, <2>3 DEF UpdatesAreInWorkers
<1>8. \A w \in Waits : Unresolved(w)' <=> Unresolved(w)
  BY <1>3 DEF Unresolved, Broadcast
<1>9. TicketsAreOwned' /\ TicketIffUnsatisfied' /\ SatisfiedWasReached'
  BY <1>2, <1>3, <1>8
  DEF TicketsAreOwned, TicketIffUnsatisfied, SatisfiedWasReached, HasTicket, Broadcast
<1>10. NoLostWakeup' /\ EventsAreUnsatisfied'
  BY <1>1, <1>2, <1>3 DEF NoLostWakeup, EventsAreUnsatisfied, Broadcast
<1> QED BY <1>2, <1>4, <1>6, <1>7, <1>9, <1>10

-----------------------------------------------------------------------------
(* The steps of single threads.                                            *)

LEMMA EventsIInv ==
  ASSUME IInv,
         \/ \E h \in Handles, value \in Values : SetEventOnCompletion(h, value)
         \/ \E t \in NullThreads, value \in Values : SetNullEventOnCompletion(t, value)
         \/ \E t \in NullThreads : NullEventWake(t)
  PROVE  IInv'
<1> USE DEF IInv
<1>1. wait' = wait /\ in_worker' = in_worker /\ released' = released
  BY DEF SetEventOnCompletion, SetNullEventOnCompletion, NullEventWake
<1>2. fence \in FenceType /\ null_wait \in [NullThreads -> NullWaitType]
  BY DEF TypeOK
<1>3. /\ \/ fence' = fence
         \/ \E e \in EventType : e.value > fence.virtual_value /\ fence' = AddEvent(fence, e)
      /\ null_wait' \in [NullThreads -> NullWaitType]
      /\ signalled' \subseteq Handles
  <2>1. ASSUME NEW h \in Handles, NEW value \in Values, SetEventOnCompletion(h, value)
        PROVE  <1>3!1 /\ <1>3!2 /\ <1>3!3
    <3>1. [value |-> value, key |-> h] \in EventType
      BY DEF EventType
    <3>2. ~(value <= fence.virtual_value) => value > fence.virtual_value
      BY <1>2 DEF FenceType, Values
    <3> QED BY <1>2, <2>1, <3>1, <3>2 DEF SetEventOnCompletion, TypeOK
  <2>2. ASSUME NEW t \in NullThreads, NEW value \in Values, SetNullEventOnCompletion(t, value)
        PROVE  <1>3!1 /\ <1>3!2 /\ <1>3!3
    <3>1. [value |-> value, key |-> t] \in EventType
      BY DEF EventType
    <3>2. ~(value <= fence.virtual_value) => value > fence.virtual_value
      BY <1>2 DEF FenceType, Values
    <3>3. /\ [pc |-> "done", latch |-> TRUE, value |-> value] \in NullWaitType
          /\ [pc |-> "asleep", latch |-> FALSE, value |-> value] \in NullWaitType
      BY DEF NullWaitType
    <3>4. null_wait' \in [NullThreads -> NullWaitType] /\ signalled' \subseteq Handles
      BY <1>2, <2>2, <3>3 DEF SetNullEventOnCompletion, TypeOK
    <3>5. \/ fence' = fence
          \/ value > fence.virtual_value /\ fence' = AddEvent(fence, [value |-> value, key |-> t])
      BY <2>2, <3>2 DEF SetNullEventOnCompletion
    <3> QED BY <3>1, <3>4, <3>5
  <2>3. ASSUME NEW t \in NullThreads, NullEventWake(t)
        PROVE  <1>3!1 /\ <1>3!2 /\ <1>3!3
    BY <1>2, <2>3 DEF NullEventWake, NullWaitType, TypeOK
  <2> QED BY <2>1, <2>2, <2>3
<1>4. /\ fence' \in FenceType
      /\ fence'.virtual_value = fence.virtual_value
      /\ fence'.max_pending = fence.max_pending
      /\ fence'.signal_count = fence.signal_count
      /\ fence'.update_count = fence.update_count
      /\ fence'.pending_updates = fence.pending_updates
      /\ fence'.wait_ticket_counter = fence.wait_ticket_counter
      /\ fence'.wait_tickets = fence.wait_tickets
      /\ fence.events \subseteq fence'.events
      /\ \A e \in fence'.events : e \in fence.events \/ e.value > fence.virtual_value
  <2>1. CASE fence' = fence
    BY <1>2, <2>1
  <2>2. CASE \E e \in EventType : e.value > fence.virtual_value /\ fence' = AddEvent(fence, e)
    <3>1. PICK e \in EventType : e.value > fence.virtual_value /\ fence' = AddEvent(fence, e)
      BY <2>2
    <3>2. fence.events \cup {e} \in SUBSET EventType
      BY <1>2 DEF FenceType
    <3> QED BY <1>2, <3>1, <3>2 DEF AddEvent, FenceType
  <2> QED BY <1>3, <2>1, <2>2
<1>5. MaxPendingIsExact' /\ UpdatesAreContiguous' /\ UpdatesAreInWorkers'
  BY <1>1, <1>4 DEF MaxPendingIsExact, ScheduledValues, UpdatesAreContiguous, UpdatesAreInWorkers
<1>6. TicketsAreOwned' /\ TicketIffUnsatisfied' /\ SatisfiedWasReached'
  BY <1>1, <1>4
  DEF TicketsAreOwned, TicketIffUnsatisfied, SatisfiedWasReached, HasTicket, Unresolved
<1>8. \A t \in NullThreads :
        \/ null_wait'[t] = null_wait[t]
        \/ null_wait'[t].pc = "done"
        \/ /\ null_wait'[t].pc = "asleep" /\ ~null_wait'[t].latch
           /\ [value |-> null_wait'[t].value, key |-> t] \in fence'.events
        \/ /\ null_wait[t].pc = "awake" /\ null_wait'[t].pc = "asleep" /\ ~null_wait'[t].latch
           /\ ~null_wait[t].latch /\ null_wait'[t].value = null_wait[t].value
  <2> TAKE t \in NullThreads
  <2>1. CASE \E h \in Handles, value \in Values : SetEventOnCompletion(h, value)
    BY <2>1 DEF SetEventOnCompletion
  <2>2. ASSUME NEW x \in NullThreads, NEW value \in Values, SetNullEventOnCompletion(x, value)
        PROVE  \/ null_wait'[t] = null_wait[t]
               \/ null_wait'[t].pc = "done"
               \/ /\ null_wait'[t].pc = "asleep" /\ ~null_wait'[t].latch
                  /\ [value |-> null_wait'[t].value, key |-> t] \in fence'.events
    <3>1. CASE value <= fence.virtual_value
      BY <1>2, <2>2, <3>1 DEF SetNullEventOnCompletion
    <3>2. CASE ~(value <= fence.virtual_value)
      <4>1. /\ null_wait' = [null_wait EXCEPT ![x] =
                               [pc |-> "asleep", latch |-> FALSE, value |-> value]]
            /\ fence' = AddEvent(fence, [value |-> value, key |-> x])
        BY <2>2, <3>2 DEF SetNullEventOnCompletion
      <4>2. [value |-> value, key |-> x] \in fence'.events
        BY <1>2, <4>1 DEF AddEvent, FenceType
      <4> QED BY <1>2, <4>1, <4>2
    <3> QED BY <3>1, <3>2
  <2>3. ASSUME NEW x \in NullThreads, NullEventWake(x)
        PROVE  \/ null_wait'[t] = null_wait[t]
               \/ null_wait'[t].pc = "done"
               \/ /\ null_wait[t].pc = "awake" /\ null_wait'[t].pc = "asleep"
                  /\ ~null_wait'[t].latch
                  /\ ~null_wait[t].latch /\ null_wait'[t].value = null_wait[t].value
    BY <1>2, <2>3 DEF NullEventWake, NullWaitType
  <2> QED BY <2>1, <2>2, <2>3
<1>9. NoLostWakeup'
  <2>1. \A w \in Waits :
          /\ wait'[w].pc = "asleep" =>
               HasTicket(fence', wait'[w].ticket) /\ MustBlock(fence', wait'[w].value)
          /\ wait'[w].pc = "order_asleep" => fence'.signal_count < wait'[w].update
    BY <1>1, <1>4 DEF NoLostWakeup, HasTicket, MustBlock
  <2>2. \A t \in NullThreads : null_wait'[t].pc = "asleep" => ~null_wait'[t].latch
    BY <1>8 DEF NoLostWakeup
  <2> QED BY <2>1, <2>2 DEF NoLostWakeup
<1>10. EventsAreUnsatisfied'
  <2>1. \A e \in fence'.events : e.value > fence'.virtual_value
    BY <1>4 DEF EventsAreUnsatisfied
  <2>2. \A t \in NullThreads :
          null_wait'[t].pc \in {"asleep", "awake"} /\ ~null_wait'[t].latch =>
            [value |-> null_wait'[t].value, key |-> t] \in fence'.events
    BY <1>4, <1>8 DEF EventsAreUnsatisfied
  <2> QED BY <2>1, <2>2 DEF EventsAreUnsatisfied
<1>11. TypeOK'
  BY <1>1, <1>3, <1>4 DEF TypeOK
<1> QED BY <1>5, <1>6, <1>9, <1>10, <1>11

\* A step of one wait that leaves the rest of the fence alone.
LEMMA WaitStepFields ==
  ASSUME IInv, NEW w \in Waits, NEW r \in WaitType,
         wait' = [wait EXCEPT ![w] = r],
         r.update <= fence.update_count,
         UNCHANGED <<fence, null_wait, signalled, in_worker, released>>
  PROVE  /\ TypeOK' /\ MaxPendingIsExact' /\ UpdatesAreContiguous'
         /\ UpdatesAreInWorkers' /\ EventsAreUnsatisfied'
         /\ wait'[w] = r /\ \A v \in Waits \ {w} : wait'[v] = wait[v]
<1> USE DEF IInv
<1>1. wait'[w] = r /\ \A v \in Waits \ {w} : wait'[v] = wait[v]
  BY DEF TypeOK
<1>2. TypeOK' /\ EventsAreUnsatisfied'
  BY DEF TypeOK, EventsAreUnsatisfied
<1>3. MaxPendingIsExact' /\ UpdatesAreContiguous'
  BY DEF MaxPendingIsExact, UpdatesAreContiguous
<1>4. UpdatesAreInWorkers'
  BY <1>1 DEF UpdatesAreInWorkers
<1> QED BY <1>1, <1>2, <1>3, <1>4

LEMMA RegisterIInv ==
  ASSUME IInv, NEW w \in Waits, NEW value \in Values, RegisterPendingGpuWait(w, value)
  PROVE  IInv'
<1> USE DEF IInv
<1> DEFINE c == fence.wait_ticket_counter + 1
           t == [ticket |-> c, virtual_value |-> value]
           r == [pc |-> "queued", value |-> value, ticket |-> c, update |-> 0,
                 reached |-> value <= fence.virtual_value]
<1>1. /\ fence \in FenceType /\ wait \in [Waits -> WaitType]
      /\ wait[w].pc = "idle"
      /\ fence' = RegisterWait(fence, value) /\ wait' = [wait EXCEPT ![w] = r]
      /\ UNCHANGED <<null_wait, signalled, in_worker, released>>
  BY DEF TypeOK, RegisterPendingGpuWait
<1>2. r \in WaitType
  <2>1. (value <= fence.virtual_value) \in BOOLEAN
    OBVIOUS
  <2>2. c \in Nat /\ 0 \in 0..MaxUpdates
    BY <1>1, MaxUpdatesAssumption DEF FenceType
  <2> HIDE DEF c
  <2> QED BY <2>1, <2>2 DEF WaitType, WaitPCs
<1>3. /\ fence' \in FenceType
      /\ fence'.virtual_value = fence.virtual_value
      /\ fence'.max_pending = fence.max_pending
      /\ fence'.signal_count = fence.signal_count
      /\ fence'.update_count = fence.update_count
      /\ fence'.pending_updates = fence.pending_updates
      /\ fence'.wait_ticket_counter = c
      /\ fence'.wait_tickets = IF fence.virtual_value < value
                               THEN fence.wait_tickets \cup {t} ELSE fence.wait_tickets
      /\ fence'.events = fence.events
  <2>1. t \in TicketType /\ c \in Nat
    BY <1>1 DEF FenceType, TicketType
  <2>2. (IF fence.virtual_value < value
         THEN fence.wait_tickets \cup {t} ELSE fence.wait_tickets) \in SUBSET TicketType
    BY <1>1, <2>1 DEF FenceType
  <2>3. RegisterWait(fence, value) =
          [fence EXCEPT !.wait_ticket_counter = c,
             !.wait_tickets = IF fence.virtual_value < value
                              THEN fence.wait_tickets \cup {t} ELSE fence.wait_tickets]
    BY <1>1 DEF RegisterWait, FenceType
  <2> HIDE DEF c, t
  <2> QED BY <1>1, <2>1, <2>2, <2>3 DEF FenceType
<1>4. wait'[w] = r /\ \A v \in Waits \ {w} : wait'[v] = wait[v]
  BY <1>1
<1>5. TypeOK' /\ EventsAreUnsatisfied'
  BY <1>1, <1>2, <1>3 DEF TypeOK, EventsAreUnsatisfied
<1>6. MaxPendingIsExact' /\ UpdatesAreContiguous'
  BY <1>3 DEF MaxPendingIsExact, ScheduledValues, UpdatesAreContiguous
<1>7. UpdatesAreInWorkers'
  <2>1. fence.update_count \in Nat
    BY <1>1 DEF FenceType
  <2> QED BY <1>1, <1>3, <1>4, <2>1 DEF UpdatesAreInWorkers
<1>8. /\ \A x \in fence.wait_tickets : x.ticket \in Nat /\ x.ticket < c
      /\ \A v \in Waits : Unresolved(v) => wait[v].ticket \in 1..fence.wait_ticket_counter
      /\ fence.wait_ticket_counter \in Nat
      /\ fence.virtual_value \in Int /\ value \in Int
  <2>1. fence.wait_ticket_counter \in Nat /\ fence.wait_tickets \in SUBSET TicketType
        /\ fence.virtual_value \in Int /\ value \in Int
    BY <1>1 DEF FenceType, Values
  <2> QED BY <2>1 DEF TicketsAreOwned, TicketType
<1>9. \A v \in Waits : v # w => (Unresolved(v)' <=> Unresolved(v))
  BY <1>4 DEF Unresolved
<1>10. \A v \in Waits : v # w /\ Unresolved(v) =>
         (HasTicket(fence', wait[v].ticket) <=> HasTicket(fence, wait[v].ticket))
  BY <1>3, <1>8 DEF HasTicket
<1>11. HasTicket(fence', c) <=> ~(value <= fence.virtual_value)
  <2>1. CASE fence.virtual_value < value
    <3>1. t \in fence'.wait_tickets /\ t.ticket = c
      BY <1>3, <2>1
    <3> HIDE DEF t, c
    <3> QED BY <1>8, <2>1, <3>1 DEF HasTicket
  <2>2. CASE ~(fence.virtual_value < value)
    <3>1. \A x \in fence'.wait_tickets : x.ticket # c
      BY <1>3, <1>8, <2>2
    <3> HIDE DEF t, c
    <3> QED BY <1>8, <2>2, <3>1 DEF HasTicket
  <2> QED BY <2>1, <2>2
<1>12. TicketIffUnsatisfied'
  <2> SUFFICES ASSUME NEW v \in Waits, Unresolved(v)'
               PROVE  HasTicket(fence', wait'[v].ticket) <=> ~wait'[v].reached
    BY DEF TicketIffUnsatisfied
  <2>1. CASE v = w
    <3>1. wait'[v].ticket = c /\ wait'[v].reached = (value <= fence.virtual_value)
      BY <1>4, <2>1
    <3> HIDE DEF c
    <3> QED BY <1>11, <3>1, Zenon
  <2>2. CASE v # w
    BY <1>4, <1>9, <1>10, <2>2 DEF TicketIffUnsatisfied
  <2> QED BY <2>1, <2>2
<1>13. TicketsAreOwned'
  <2>1. \A x \in fence'.wait_tickets :
          x.ticket <= fence'.wait_ticket_counter /\ fence'.virtual_value < x.virtual_value
    BY <1>3, <1>8 DEF TicketsAreOwned
  <2>2. ASSUME NEW v \in Waits, Unresolved(v)'
        PROVE  /\ wait'[v].ticket \in 1..fence'.wait_ticket_counter
               /\ \A x \in fence'.wait_tickets :
                    x.ticket = wait'[v].ticket => x.virtual_value = wait'[v].value
    <3>1. CASE v = w
      BY <1>3, <1>4, <1>8, <3>1
    <3>2. CASE v # w
      BY <1>3, <1>4, <1>8, <1>9, <2>2, <3>2 DEF TicketsAreOwned
    <3> QED BY <3>1, <3>2
  <2>3. ASSUME NEW v \in Waits, NEW x \in Waits, Unresolved(v)', Unresolved(x)',
               wait'[v].ticket = wait'[x].ticket
        PROVE  v = x
    BY <1>4, <1>8, <1>9, <2>3 DEF TicketsAreOwned
  <2> QED BY <2>1, <2>2, <2>3 DEF TicketsAreOwned
<1>14. SatisfiedWasReached'
  BY <1>4 DEF SatisfiedWasReached
<1>15. NoLostWakeup'
  <2>1. ASSUME NEW v \in Waits
        PROVE  /\ wait'[v].pc = "asleep" =>
                    HasTicket(fence', wait'[v].ticket) /\ MustBlock(fence', wait'[v].value)
               /\ wait'[v].pc = "order_asleep" => fence'.signal_count < wait'[v].update
    <3>1. CASE v = w
      BY <1>4, <3>1
    <3>2. CASE v # w
      BY <1>3, <1>4, <1>10, <3>2 DEF NoLostWakeup, MustBlock, Unresolved
    <3> QED BY <3>1, <3>2
  <2> QED BY <1>1, <2>1 DEF NoLostWakeup
<1> QED BY <1>5, <1>6, <1>7, <1>12, <1>13, <1>14, <1>15

LEMMA WaitSatisfiedIInv ==
  ASSUME IInv, NEW w \in Waits, WaitSatisfied(w)
  PROVE  IInv'
<1> USE DEF IInv
<1> DEFINE r == [wait[w] EXCEPT !.pc = "satisfied"]
<1>1. r \in WaitType /\ r.update = wait[w].update
  BY DEF TypeOK, WaitType, WaitPCs
<1>2. wait' = [wait EXCEPT ![w] = r]
  BY DEF WaitSatisfied
<1>3. /\ TypeOK' /\ MaxPendingIsExact' /\ UpdatesAreContiguous'
      /\ UpdatesAreInWorkers' /\ EventsAreUnsatisfied'
      /\ wait'[w] = r /\ \A v \in Waits \ {w} : wait'[v] = wait[v]
  <2> HIDE DEF r
  <2>1. r.update <= fence.update_count
    BY <1>1 DEF UpdatesAreInWorkers
  <2> QED BY <1>1, <1>2, <2>1, WaitStepFields DEF WaitSatisfied
<1>4. fence' = fence /\ null_wait' = null_wait
  BY DEF WaitSatisfied
<1>5. wait'[w].pc = "satisfied" /\ wait'[w].reached = wait[w].reached
  BY <1>3 DEF TypeOK, WaitType
<1>6. wait[w].reached
  BY DEF WaitSatisfied, Unblocked, TicketIffUnsatisfied, Unresolved
<1> HIDE DEF r
<1>7. TicketsAreOwned' /\ TicketIffUnsatisfied'
  BY <1>3, <1>4, <1>5 DEF TicketsAreOwned, TicketIffUnsatisfied, Unresolved
<1>8. SatisfiedWasReached' /\ NoLostWakeup'
  BY <1>3, <1>4, <1>5, <1>6 DEF SatisfiedWasReached, NoLostWakeup
<1> QED BY <1>3, <1>7, <1>8

LEMMA WaitSleepsIInv ==
  ASSUME IInv, NEW w \in Waits, WaitSleeps(w)
  PROVE  IInv'
<1> USE DEF IInv
<1> DEFINE r == [wait[w] EXCEPT !.pc = "asleep"]
<1>1. /\ r \in WaitType /\ r.update = wait[w].update /\ r.ticket = wait[w].ticket
      /\ r.value = wait[w].value /\ r.reached = wait[w].reached /\ r.pc = "asleep"
  BY DEF TypeOK, WaitType, WaitPCs
<1>2. wait' = [wait EXCEPT ![w] = r]
  BY DEF WaitSleeps
<1> HIDE DEF r
<1>3. /\ TypeOK' /\ MaxPendingIsExact' /\ UpdatesAreContiguous'
      /\ UpdatesAreInWorkers' /\ EventsAreUnsatisfied'
      /\ wait'[w] = r /\ \A v \in Waits \ {w} : wait'[v] = wait[v]
  <2>1. r.update <= fence.update_count
    BY <1>1 DEF UpdatesAreInWorkers
  <2> QED BY <1>1, <1>2, <2>1, WaitStepFields DEF WaitSleeps
<1>4. fence' = fence /\ null_wait' = null_wait
  BY DEF WaitSleeps
<1>5. /\ Unresolved(w) /\ HasTicket(fence, wait[w].ticket)
      /\ MustBlock(fence, wait[w].value)
  BY DEF WaitSleeps, Unblocked, Unresolved
<1>6. \A v \in Waits :
        /\ Unresolved(v)' <=> Unresolved(v)
        /\ wait'[v].ticket = wait[v].ticket /\ wait'[v].value = wait[v].value
        /\ wait'[v].reached = wait[v].reached
  BY <1>1, <1>3, <1>5 DEF Unresolved
<1>7. TicketsAreOwned' /\ TicketIffUnsatisfied'
  BY <1>4, <1>6 DEF TicketsAreOwned, TicketIffUnsatisfied
<1>8. SatisfiedWasReached' /\ NoLostWakeup'
  BY <1>1, <1>3, <1>4, <1>5 DEF SatisfiedWasReached, NoLostWakeup
<1> QED BY <1>3, <1>7, <1>8

LEMMA WaitResolvesIInv ==
  ASSUME IInv, NEW w \in Waits, NEW u \in fence.pending_updates, WaitResolves(w, u)
  PROVE  IInv'
<1> USE DEF IInv
<1> DEFINE r == [wait[w] EXCEPT !.pc = "ordering", !.update = u.update_count]
           T == {t \in fence.wait_tickets : t.ticket # wait[w].ticket}
<1>1. /\ fence \in FenceType /\ wait \in [Waits -> WaitType]
      /\ Unresolved(w)
      /\ fence' = ConsumeTicket(fence, wait[w].ticket) /\ wait' = [wait EXCEPT ![w] = r]
      /\ UNCHANGED <<null_wait, signalled, in_worker, released>>
  BY DEF TypeOK, WaitResolves, Unblocked, Unresolved
<1>2. /\ r \in WaitType /\ r.pc = "ordering" /\ r.update = u.update_count
  <2>1. wait[w] \in WaitType
    BY <1>1
  <2>2. u.update_count \in 0..MaxUpdates
    BY <1>1, MaxUpdatesAssumption DEF FenceType, PendingUpdateType
  <2>3. "ordering" \in WaitPCs
    BY DEF WaitPCs
  <2> QED BY <2>1, <2>2, <2>3 DEF WaitType
<1>3. wait'[w] = r /\ \A v \in Waits \ {w} : wait'[v] = wait[v]
  BY <1>1
<1> HIDE DEF r
<1>4. /\ fence' \in FenceType
      /\ fence'.virtual_value = fence.virtual_value
      /\ fence'.max_pending = fence.max_pending
      /\ fence'.signal_count = fence.signal_count
      /\ fence'.update_count = fence.update_count
      /\ fence'.pending_updates = fence.pending_updates
      /\ fence'.wait_ticket_counter = fence.wait_ticket_counter
      /\ fence'.wait_tickets = T
      /\ fence'.events = fence.events
  <2>1. T \in SUBSET TicketType
    BY <1>1 DEF FenceType
  <2>2. ConsumeTicket(fence, wait[w].ticket) = [fence EXCEPT !.wait_tickets = T]
    BY <1>1 DEF ConsumeTicket, FenceType
  <2> HIDE DEF T
  <2> QED BY <1>1, <2>1, <2>2 DEF FenceType
<1>5. TypeOK' /\ EventsAreUnsatisfied'
  BY <1>1, <1>2, <1>4 DEF TypeOK, EventsAreUnsatisfied
<1>6. MaxPendingIsExact' /\ UpdatesAreContiguous'
  BY <1>4 DEF MaxPendingIsExact, ScheduledValues, UpdatesAreContiguous
<1>7. UpdatesAreInWorkers'
  <2>1. u.update_count <= fence.update_count
    BY <1>1 DEF UpdatesAreContiguous, FenceType
  <2> QED BY <1>1, <1>2, <1>3, <1>4, <2>1 DEF UpdatesAreInWorkers
<1>8. ~Unresolved(w)' /\ \A v \in Waits : v # w => (Unresolved(v)' <=> Unresolved(v))
  BY <1>2, <1>3 DEF Unresolved
<1>9. \A v \in Waits : v # w /\ Unresolved(v) =>
        (HasTicket(fence', wait[v].ticket) <=> HasTicket(fence, wait[v].ticket))
  BY <1>1, <1>4 DEF HasTicket, TicketsAreOwned
<1>10. TicketIffUnsatisfied'
  BY <1>3, <1>8, <1>9 DEF TicketIffUnsatisfied
<1>11. TicketsAreOwned'
  BY <1>3, <1>4, <1>8 DEF TicketsAreOwned
<1>12. SatisfiedWasReached'
  BY <1>2, <1>3 DEF SatisfiedWasReached
<1>13. NoLostWakeup'
  BY <1>1, <1>2, <1>3, <1>4, <1>9 DEF NoLostWakeup, MustBlock, Unresolved
<1> QED BY <1>5, <1>6, <1>7, <1>10, <1>11, <1>12, <1>13

LEMMA OrderIInv ==
  ASSUME IInv, NEW w \in Waits, WaitUntilSignalCountReaches(w)
  PROVE  IInv'
<1> USE DEF IInv
<1> DEFINE p == IF fence.signal_count < wait[w].update THEN "order_asleep" ELSE "ordered"
           r == [wait[w] EXCEPT !.pc = p]
<1>1. /\ r \in WaitType /\ r.update = wait[w].update /\ r.ticket = wait[w].ticket
      /\ r.pc = p
  BY DEF TypeOK, WaitType, WaitPCs
<1>2. wait' = [wait EXCEPT ![w] = r]
  BY DEF WaitUntilSignalCountReaches
<1> HIDE DEF r
<1>3. /\ TypeOK' /\ MaxPendingIsExact' /\ UpdatesAreContiguous'
      /\ UpdatesAreInWorkers' /\ EventsAreUnsatisfied'
      /\ wait'[w] = r /\ \A v \in Waits \ {w} : wait'[v] = wait[v]
  <2>1. r.update <= fence.update_count
    BY <1>1 DEF UpdatesAreInWorkers
  <2> QED BY <1>1, <1>2, <2>1, WaitStepFields DEF WaitUntilSignalCountReaches
<1>4. fence' = fence /\ null_wait' = null_wait /\ ~Unresolved(w)
  BY DEF WaitUntilSignalCountReaches, Unresolved
<1>5. p \in {"order_asleep", "ordered"} /\ (p = "order_asleep" => fence.signal_count < wait[w].update)
  OBVIOUS
<1> HIDE DEF p
<1>6. ~Unresolved(w)' /\ \A v \in Waits : v # w => (Unresolved(v)' <=> Unresolved(v))
  BY <1>1, <1>3, <1>5 DEF Unresolved
<1>7. TicketsAreOwned' /\ TicketIffUnsatisfied'
  BY <1>3, <1>4, <1>6 DEF TicketsAreOwned, TicketIffUnsatisfied
<1>8. SatisfiedWasReached' /\ NoLostWakeup'
  BY <1>1, <1>3, <1>4, <1>5 DEF SatisfiedWasReached, NoLostWakeup
<1> QED BY <1>3, <1>7, <1>8

LEMMA NextIInv == IInv /\ [Next]_vars => IInv'
<1> SUFFICES ASSUME IInv, [Next]_vars PROVE IInv'
  OBVIOUS
<1>1. CASE \E value \in Values : CpuSignalFence(value)
  BY <1>1, SetValueIInv DEF CpuSignalFence, IInv, TypeOK
<1>2. CASE Release
  <2>1. UINT64_MAX \in Values
    BY UINT64_MAX_Assumption DEF Values
  <2> QED BY <1>2, <2>1, SetValueIInv DEF Release
<1>3. CASE \E h \in Handles, value \in Values : SetEventOnCompletion(h, value)
  BY <1>3, EventsIInv
<1>4. CASE \E t \in NullThreads, value \in Values : SetNullEventOnCompletion(t, value)
  BY <1>4, EventsIInv
<1>5. CASE \E t \in NullThreads : NullEventWake(t)
  BY <1>5, EventsIInv
<1>6. CASE \E w \in Waits, value \in Values : RegisterPendingGpuWait(w, value)
  BY <1>6, RegisterIInv
<1>7. CASE \E w \in Waits : SubmissionThread(w)
  BY <1>7, WaitSatisfiedIInv, WaitSleepsIInv, WaitResolvesIInv DEF SubmissionThread
<1>8. CASE \E q \in VkQueues, value \in Values : ScheduleSignal(q, value)
  BY <1>8, ScheduleSignalIInv
<1>9. CASE \E n \in in_worker : FenceSignal(n)
  BY <1>9, FenceSignalIInv
<1>10. CASE \E w \in Waits : WaitUntilSignalCountReaches(w)
  BY <1>10, OrderIInv
<1>11. CASE UNCHANGED vars
  BY <1>11 DEF vars, IInv, TypeOK, MaxPendingIsExact, UpdatesAreContiguous,
     UpdatesAreInWorkers, TicketsAreOwned, TicketIffUnsatisfied, SatisfiedWasReached,
     NoLostWakeup, EventsAreUnsatisfied, Unresolved
<1> QED BY <1>1, <1>2, <1>3, <1>4, <1>5, <1>6, <1>7, <1>8, <1>9, <1>10, <1>11 DEF Next

\* The invariant holds in every state of every behaviour of the fence.
THEOREM Invariance == Spec => []IInv
BY InitIInv, NextIInv, PTL DEF Spec

-----------------------------------------------------------------------------
(* What follows from it.                                                   *)

\* Whatever order the fence workers run in, d3d12_fence_signal finds each update
\* once, and the maximum is refreshed often enough.
THEOREM PendingListCorrect == Spec => []PendingListIsRight
BY Invariance, PTL DEF IInv, PendingListIsRight

\* "The instant a queued WAIT can be satisfied, it is forever satisfied", and
\* no earlier.
THEOREM TicketsCorrect == Spec => []TicketIffUnsatisfied
BY Invariance, PTL DEF IInv

\* A wait is dropped only if the fence really had its value.
THEOREM SatisfiedCorrect == Spec => []SatisfiedWasReached
BY Invariance, PTL DEF IInv

\* No thread sleeps on fence->cond or null_event_cond although its condition holds.
THEOREM WakeupsCorrect == Spec => []NoLostWakeup
BY Invariance, PTL DEF IInv

\* Events stay registered only while they are unsatisfied; blocked threads are listed.
THEOREM EventsCorrect == Spec => []EventsAreUnsatisfied
BY Invariance, PTL DEF IInv

\* A worker that is held back by an update has another worker to wait for.
THEOREM OrderingIsServed == Spec => []UpdateHasSignaller
<1>1. IInv => UpdateHasSignaller
  <2> SUFFICES ASSUME IInv, NEW w \in Waits
               PROVE  wait[w].update <= fence.signal_count \/ wait[w].update \in in_worker
    BY DEF UpdateHasSignaller
  <2>1. /\ wait[w].update \in Nat /\ fence.signal_count \in Nat /\ fence.update_count \in Nat
        /\ wait[w].update <= fence.update_count
        /\ (fence.signal_count + 1)..fence.update_count \subseteq in_worker
    BY DEF IInv, TypeOK, WaitType, FenceType, UpdatesAreInWorkers
  <2> QED BY <2>1
<1> QED BY <1>1, Invariance, PTL

\* The assertion of d3d12_fence_block_until_pending_value_reaches_locked never fires.
THEOREM AssertionHolds == Spec => []SatisfyingUpdateExists
<1>1. IInv => SatisfyingUpdateExists
  <2> SUFFICES ASSUME IInv, NEW w \in Waits, Unblocked(w),
                      HasTicket(fence, wait[w].ticket), ~MustBlock(fence, wait[w].value)
               PROVE  Resolutions(fence, wait[w].value, QueueOf[w]) # {}
    BY DEF SatisfyingUpdateExists
  <2> DEFINE all == Satisfying(fence, wait[w].value)
             counts == {u.update_count : u \in all}
  <2>1. /\ fence \in FenceType /\ wait[w].value \in Values
        /\ fence.virtual_value < wait[w].value
    <3>1. Unresolved(w)
      BY DEF Unblocked, Unresolved
    <3>2. fence \in FenceType /\ wait[w].value \in Values
      BY DEF IInv, TypeOK, WaitType
    <3>3. PICK t \in fence.wait_tickets : t.ticket = wait[w].ticket
      BY DEF HasTicket
    <3>4. t.virtual_value = wait[w].value /\ fence.virtual_value < t.virtual_value
      BY <3>1, <3>3 DEF IInv, TicketsAreOwned
    <3> QED BY <3>2, <3>4
  <2>2. PICK u \in fence.pending_updates : u.virtual_value = fence.max_pending
    <3>1. fence.max_pending \in ScheduledValues(fence) /\ fence.max_pending # fence.virtual_value
      BY <2>1 DEF IInv, MaxPendingIsExact, MustBlock, FenceType, Values
    <3> QED BY <3>1 DEF ScheduledValues
  <2>3. u \in all
    BY <2>1, <2>2 DEF Satisfying, MustBlock, FenceType, PendingUpdateType, Values
  <2>4. counts \in SUBSET (0..MaxUpdates) /\ counts # {}
    BY <2>1, <2>3 DEF Satisfying, FenceType, PendingUpdateType
  <2>5. \E c \in counts : \A d \in counts : c <= d
    BY <2>4, LeastOfBounded, MaxUpdatesAssumption
  <2>6. \E x \in all : \A y \in all : x.update_count <= y.update_count
    BY <2>5
  <2> HIDE DEF all
  <2>7. Resolutions(fence, wait[w].value, QueueOf[w]) =
          IF OnQueue(all, QueueOf[w]) # {} THEN OnQueue(all, QueueOf[w])
          ELSE {x \in all : \A y \in all : x.update_count <= y.update_count}
    BY DEF Resolutions, all
  <2> QED BY <2>6, <2>7
<1> QED BY <1>1, Invariance, PTL


-----------------------------------------------------------------------------
(* Proof that the fence implements its contract.  Only one fact is needed  *)
(* beyond the invariant IInv of the fence: an update that holds back a     *)
(* fence worker carries a value that satisfies the wait (OrderedWasReached)*)

-----------------------------------------------------------------------------
(* What the steps do to the clients.                                       *)

\* The fields of a wait after a broadcast that announces vals.
LEMMA NotifiedWaits ==
  ASSUME TypeOK, NEW vals, NotifyWaits(vals)
  PROVE  \A w \in Waits :
           /\ wait'[w].value = wait[w].value /\ wait'[w].update = wait[w].update
           /\ wait'[w].pc = Broadcast(wait[w].pc)
           /\ wait'[w].reached <=> (wait[w].reached \/ \E v \in vals : wait[w].value <= v)
           /\ Issued(w)' <=> Issued(w)
           /\ wait'[w].pc \in {"satisfied", "ordered"} <=> wait[w].pc \in {"satisfied", "ordered"}
           /\ wait'[w].pc \in {"ordering", "order_asleep", "order_awake"} <=>
                wait[w].pc \in {"ordering", "order_asleep", "order_awake"}
<1>1. \A w \in Waits :
        /\ wait'[w].value = wait[w].value /\ wait'[w].update = wait[w].update
        /\ wait'[w].pc = Broadcast(wait[w].pc)
        /\ wait'[w].reached = Observe(wait[w], vals)
  BY DEF NotifyWaits, TypeOK, WaitType
<1> QED BY <1>1 DEF Broadcast, Observe, Issued

\* Values that the fence takes meet the requests they satisfy, nothing else.
LEMMA TakenValuesMeetRequests ==
  ASSUME IInv, NEW vals \in SUBSET Values,
         fence'.events = {e \in fence.events : \A v \in vals : v < e.value},
         NotifyWaits(vals), SignalEvents(vals)
  PROVE  LET satisfied == {r \in OpenRequests : \E v \in vals : r.value <= v} IN
         /\ OpenRequests' = OpenRequests \ satisfied
         /\ MetClients' = MetClients \cup {r.key : r \in satisfied}
         /\ ThroughClients' = ThroughClients
<1> DEFINE satisfied == {r \in OpenRequests : \E v \in vals : r.value <= v}
           request(w) == [value |-> wait[w].value, key |-> w]
<1>1. TypeOK
  BY DEF IInv
<1>2. \A w \in Waits :
        /\ wait'[w].value = wait[w].value
        /\ wait'[w].reached <=> (wait[w].reached \/ \E v \in vals : wait[w].value <= v)
        /\ Issued(w)' <=> Issued(w)
        /\ wait'[w].pc \in {"satisfied", "ordered"} <=> wait[w].pc \in {"satisfied", "ordered"}
  BY <1>1, NotifiedWaits
<1>3. /\ \A t \in NullThreads :
           /\ null_wait'[t].pc = "done" <=> null_wait[t].pc = "done"
           /\ null_wait'[t].latch <=>
                (null_wait[t].latch \/ \E e \in EventsReached(fence, vals) : e.key = t)
      /\ signalled' = signalled \cup ({e.key : e \in EventsReached(fence, vals)} \cap Handles)
      /\ \A e \in fence.events : e.key \in Handles \cup NullThreads
  BY <1>1 DEF SignalEvents, TypeOK, FenceType, EventType, NullWaitType
<1>4. \A e \in fence.events : (\A v \in vals : v < e.value) <=> ~\E v \in vals : e.value <= v
  BY <1>1 DEF TypeOK, FenceType, EventType, Values
<1>5. OpenRequests' = OpenRequests \ satisfied
  <2>1. ASSUME NEW r PROVE r \in OpenRequests' <=> r \in OpenRequests /\ r \notin satisfied
    <3>1. r \in OpenRequests' <=>
            \/ r \in fence'.events
            \/ \E w \in Waits : Issued(w) /\ ~wait'[w].reached /\ r = request(w)
      BY <1>2 DEF OpenRequests
    <3>2. r \in fence'.events <=> r \in fence.events /\ ~\E v \in vals : r.value <= v
      BY <1>4
    <3>3. (\E w \in Waits : Issued(w) /\ ~wait'[w].reached /\ r = request(w)) <=>
            /\ \E w \in Waits : Issued(w) /\ ~wait[w].reached /\ r = request(w)
            /\ ~\E v \in vals : r.value <= v
      BY <1>2
    <3>4. r \in OpenRequests <=>
            \/ r \in fence.events
            \/ \E w \in Waits : Issued(w) /\ ~wait[w].reached /\ r = request(w)
      BY DEF OpenRequests
    <3> HIDE DEF request
    <3> QED BY <3>1, <3>2, <3>3, <3>4
  <2> QED BY <2>1
<1>6. MetClients' = MetClients \cup {r.key : r \in satisfied}
  <2>1. ASSUME NEW c PROVE c \in MetClients' <=> c \in MetClients \/ \E r \in satisfied : c = r.key
    <3>1. c \in MetClients' <=>
            \/ c \in signalled'
            \/ c \in NullThreads /\ null_wait'[c].latch
            \/ c \in Waits /\ Issued(c) /\ wait'[c].reached
      BY <1>2 DEF MetClients
    <3>2. c \in MetClients <=>
            \/ c \in signalled
            \/ c \in NullThreads /\ null_wait[c].latch
            \/ c \in Waits /\ Issued(c) /\ wait[c].reached
      BY DEF MetClients
    <3>3. (\E r \in satisfied : c = r.key) <=>
            \/ \E e \in EventsReached(fence, vals) : c = e.key
            \/ /\ c \in Waits /\ Issued(c) /\ ~wait[c].reached
               /\ \E v \in vals : wait[c].value <= v
      <4> DEFINE waiting == {request(w) : w \in {v \in Waits : Issued(v) /\ ~wait[v].reached}}
      <4>1. satisfied = EventsReached(fence, vals) \cup {r \in waiting : \E v \in vals : r.value <= v}
        BY DEF OpenRequests, EventsReached
      <4>2. (\E r \in waiting : c = r.key /\ \E v \in vals : r.value <= v) <=>
              /\ c \in Waits /\ Issued(c) /\ ~wait[c].reached
              /\ \E v \in vals : wait[c].value <= v
        <5>1. \A w : request(w).key = w /\ request(w).value = wait[w].value
          OBVIOUS
        <5>2. \A r : r \in waiting <=> \E w \in Waits : Issued(w) /\ ~wait[w].reached /\ r = request(w)
          OBVIOUS
        <5> HIDE DEF request, waiting
        <5> QED BY <5>1, <5>2
      <4> HIDE DEF satisfied, waiting
      <4> QED BY <4>1, <4>2
    <3>4. (\E e \in EventsReached(fence, vals) : c = e.key) => c \in Handles \cup NullThreads
      BY <1>3 DEF EventsReached
    <3>5. c \in Waits => (wait'[c].reached <=> (wait[c].reached \/ \E v \in vals : wait[c].value <= v))
      BY <1>2
    <3>6. /\ c \in NullThreads =>
               (null_wait'[c].latch <=>
                  (null_wait[c].latch \/ \E e \in EventsReached(fence, vals) : c = e.key))
          /\ c \in signalled' <=>
               (c \in signalled \/ (c \in Handles /\ \E e \in EventsReached(fence, vals) : c = e.key))
      BY <1>3
    <3> HIDE DEF satisfied
    <3> QED BY <3>1, <3>2, <3>3, <3>4, <3>5, <3>6
  <2> QED BY <2>1
<1>7. ThroughClients' = ThroughClients
  BY <1>2, <1>3 DEF ThroughClients
<1> QED BY <1>5, <1>6, <1>7

\* The value a fence worker leaves behind is that of the update it was called for.
LEMMA SignalValue ==
  ASSUME NEW f \in FenceType, NEW n \in Nat, NEW u \in f.pending_updates,
         f.signal_count < n, u.update_count = n,
         \A v, w \in f.pending_updates : v.update_count = w.update_count => v = w
  PROVE  Signal(f, n).virtual_value = u.virtual_value
<1> DEFINE s == IF n > f.signal_count THEN n ELSE f.signal_count
           v == IF Applied(f, n) = {} THEN f.virtual_value ELSE LastApplied(f, n).virtual_value
           p == f.pending_updates \ Applied(f, n)
           h == [f EXCEPT !.signal_count = s, !.virtual_value = v, !.pending_updates = p]
<1>1. u \in Applied(f, n) /\ LastApplied(f, n) = u
  BY LastAppliedIsOwn DEF Applied
<1>2. v = u.virtual_value
  BY <1>1
<1>3. u.virtual_value \in Values /\ s \in 0..MaxUpdates /\ p \in SUBSET PendingUpdateType
  BY <1>1 DEF FenceType, PendingUpdateType, Applied
<1> HIDE DEF s, v, p
<1>4. h \in FenceType /\ h.virtual_value = u.virtual_value
  BY <1>2, <1>3 DEF FenceType
<1>5. Signal(f, n) = UpdatePendingValue(Reach(h, AppliedValues(f, n)))
  BY DEF Signal, h, s, v, p
<1> HIDE DEF h
<1> QED BY <1>4, <1>5, ReachFields, UpdatePendingValueFields

-----------------------------------------------------------------------------
(* A fence worker that was let pass saw the value.                         *)

LEMMA OrderedAfterSetValue ==
  ASSUME IInv, OrderedWasReached, NEW value \in Values, SetValue(value)
  PROVE  OrderedWasReached'
<1>1. TypeOK /\ NotifyWaits({value}) /\ fence \in FenceType /\ fence' = CpuSignal(fence, value)
  BY DEF IInv, TypeOK, SetValue
<1>2. fence'.signal_count = fence.signal_count /\ fence'.pending_updates = fence.pending_updates
  BY <1>1, CpuSignalFields
<1> QED BY <1>1, <1>2, NotifiedWaits DEF OrderedWasReached

LEMMA OrderedAfterFenceSignal ==
  ASSUME IInv, OrderedWasReached, NEW n \in in_worker, FenceSignal(n)
  PROVE  OrderedWasReached'
<1> DEFINE s == IF n > fence.signal_count THEN n ELSE fence.signal_count
           vals == AppliedValues(fence, n)
<1>1. /\ TypeOK /\ NotifyWaits(vals) /\ fence \in FenceType
      /\ fence' = Signal(fence, n) /\ n \in 1..fence.update_count
  BY DEF IInv, TypeOK, FenceSignal, UpdatesAreInWorkers
<1>2. /\ fence'.signal_count = s
      /\ fence'.pending_updates = fence.pending_updates \ Applied(fence, n)
  BY <1>1, SignalFields DEF IInv, UpdatesAreContiguous
<1> SUFFICES ASSUME NEW w \in Waits,
                    wait'[w].pc \in {"ordering", "order_asleep", "order_awake"}
             PROVE  IF wait'[w].update <= s THEN wait'[w].reached
                    ELSE \E u \in fence'.pending_updates :
                           u.update_count = wait'[w].update /\ u.virtual_value >= wait'[w].value
  BY <1>2 DEF OrderedWasReached
<1>3. /\ wait'[w].update = wait[w].update /\ wait'[w].value = wait[w].value
      /\ wait'[w].reached <=> (wait[w].reached \/ \E v \in vals : wait[w].value <= v)
      /\ wait[w].pc \in {"ordering", "order_asleep", "order_awake"}
  BY <1>1, NotifiedWaits
<1>4. /\ fence.signal_count \in Nat /\ n \in Nat /\ wait[w].update \in Nat
      /\ wait[w].value \in Nat
      /\ \A u \in fence.pending_updates : u.virtual_value \in Nat
  BY <1>1 DEF TypeOK, FenceType, WaitType, PendingUpdateType, Values
<1>5. CASE wait[w].update <= fence.signal_count
  BY <1>3, <1>4, <1>5 DEF OrderedWasReached
<1>6. CASE ~(wait[w].update <= fence.signal_count)
  <2>1. PICK u \in fence.pending_updates :
          u.update_count = wait[w].update /\ u.virtual_value >= wait[w].value
    BY <1>3, <1>6 DEF OrderedWasReached
  <2>2. CASE wait[w].update <= s
    <3>1. u \in Applied(fence, n)
      BY <1>4, <1>6, <2>1, <2>2 DEF Applied
    <3>2. u.virtual_value \in vals /\ wait[w].value <= u.virtual_value
      BY <1>4, <2>1, <3>1 DEF AppliedValues
    <3> HIDE DEF vals
    <3> QED BY <1>3, <2>2, <3>2
  <2>3. CASE ~(wait[w].update <= s)
    <3>1. u \notin Applied(fence, n)
      BY <1>4, <2>1, <2>3 DEF Applied
    <3> QED BY <1>2, <1>3, <2>1, <2>3, <3>1
  <2> QED BY <2>2, <2>3
<1> QED BY <1>5, <1>6

LEMMA OrderedAfterWaitResolves ==
  ASSUME IInv, OrderedWasReached, NEW w \in Waits, NEW u \in fence.pending_updates,
         WaitResolves(w, u)
  PROVE  OrderedWasReached'
<1>1. /\ fence \in FenceType /\ wait \in [Waits -> WaitType]
      /\ fence' = ConsumeTicket(fence, wait[w].ticket)
      /\ wait' = [wait EXCEPT ![w] = [wait[w] EXCEPT !.pc = "ordering", !.update = u.update_count]]
  BY DEF IInv, TypeOK, WaitResolves
<1>2. fence'.signal_count = fence.signal_count /\ fence'.pending_updates = fence.pending_updates
  BY <1>1 DEF ConsumeTicket, FenceType
<1>3. u.virtual_value >= wait[w].value
  BY DEF WaitResolves, Resolutions, OnQueue, Satisfying
<1>4. u.update_count > fence.signal_count /\ u.update_count \in Nat /\ fence.signal_count \in Nat
  BY <1>1 DEF IInv, UpdatesAreContiguous, FenceType
<1>5. /\ wait'[w].update = u.update_count /\ wait'[w].value = wait[w].value
      /\ \A v \in Waits \ {w} : wait'[v] = wait[v]
  BY <1>1 DEF WaitType
<1> QED BY <1>2, <1>3, <1>4, <1>5 DEF OrderedWasReached

LEMMA OrderedStep == IInv /\ OrderedWasReached /\ [Next]_vars => OrderedWasReached'
<1> SUFFICES ASSUME IInv, OrderedWasReached, [Next]_vars PROVE OrderedWasReached'
  OBVIOUS
<1>t. TypeOK /\ fence \in FenceType /\ wait \in [Waits -> WaitType]
  BY DEF IInv, TypeOK
<1>1. CASE \E value \in Values : CpuSignalFence(value)
  BY <1>1, OrderedAfterSetValue DEF CpuSignalFence
<1>2. CASE Release
  BY <1>2, OrderedAfterSetValue, UINT64_MAX_Assumption DEF Release, Values
<1>3. ASSUME wait' = wait, fence' = fence \/ \E e : fence' = AddEvent(fence, e)
      PROVE  OrderedWasReached'
  <2>1. fence'.signal_count = fence.signal_count /\ fence'.pending_updates = fence.pending_updates
    BY <1>t, <1>3 DEF AddEvent, FenceType
  <2> QED BY <1>3, <2>1 DEF OrderedWasReached
<1>4. CASE \/ \E h \in Handles, value \in Values : SetEventOnCompletion(h, value)
           \/ \E t \in NullThreads, value \in Values : SetNullEventOnCompletion(t, value)
           \/ \E t \in NullThreads : NullEventWake(t)
  BY <1>3, <1>4 DEF SetEventOnCompletion, SetNullEventOnCompletion, NullEventWake
<1>5. ASSUME NEW w \in Waits, NEW value \in Values, RegisterPendingGpuWait(w, value)
      PROVE  OrderedWasReached'
  <2>1. fence'.signal_count = fence.signal_count /\ fence'.pending_updates = fence.pending_updates
    BY <1>t, <1>5 DEF RegisterPendingGpuWait, RegisterWait, FenceType
  <2>2. wait'[w].pc = "queued" /\ \A v \in Waits \ {w} : wait'[v] = wait[v]
    BY <1>t, <1>5 DEF RegisterPendingGpuWait
  <2> QED BY <2>1, <2>2 DEF OrderedWasReached
<1>6. ASSUME NEW w \in Waits, WaitSatisfied(w) \/ WaitSleeps(w)
      PROVE  OrderedWasReached'
  <2>1. fence' = fence /\ wait'[w].pc \in {"satisfied", "asleep"}
        /\ \A v \in Waits \ {w} : wait'[v] = wait[v]
    BY <1>t, <1>6 DEF WaitSatisfied, WaitSleeps, WaitType
  <2> QED BY <2>1 DEF OrderedWasReached
<1>7. CASE \E w \in Waits : SubmissionThread(w)
  BY <1>6, <1>7, OrderedAfterWaitResolves DEF SubmissionThread
<1>8. ASSUME NEW q \in VkQueues, NEW value \in Values, ScheduleSignal(q, value)
      PROVE  OrderedWasReached'
  <2>1. /\ fence'.signal_count = fence.signal_count
        /\ fence.pending_updates \subseteq fence'.pending_updates
    BY <1>t, <1>8, AddPendingSignalFields DEF ScheduleSignal
  <2>2. NotifyWaits({})
    BY <1>8 DEF ScheduleSignal
  <2> QED BY <1>t, <2>1, <2>2, NotifiedWaits DEF OrderedWasReached
<1>9. CASE \E n \in in_worker : FenceSignal(n)
  BY <1>9, OrderedAfterFenceSignal
<1>10. ASSUME NEW w \in Waits, WaitUntilSignalCountReaches(w)
       PROVE  OrderedWasReached'
  <2>1. /\ fence' = fence
        /\ wait'[w].update = wait[w].update /\ wait'[w].value = wait[w].value
        /\ wait'[w].reached = wait[w].reached
        /\ wait[w].pc \in {"ordering", "order_awake"}
        /\ \A v \in Waits \ {w} : wait'[v] = wait[v]
    BY <1>t, <1>10 DEF WaitUntilSignalCountReaches, WaitType
  <2> QED BY <2>1 DEF OrderedWasReached
<1>11. CASE UNCHANGED vars
  BY <1>11 DEF vars, OrderedWasReached
<1> QED BY <1>1, <1>2, <1>4, <1>5, <1>7, <1>8, <1>9, <1>10, <1>11 DEF Next

\* Whoever passes an update passes it after the fence held a sufficient value.
THEOREM OrderedCorrect == Spec => []OrderedWasReached
<1>1. Init => OrderedWasReached
  BY DEF Init, IdleWait, OrderedWasReached
<1> QED BY <1>1, OrderedStep, Invariance, PTL DEF Spec

-----------------------------------------------------------------------------
(* Threads blocked by SetEventOnCompletion(NULL).                          *)

\* A thread that blocks has no request before it calls.
NullThreadsStartIdle ==
  /\ \A t \in NullThreads : null_wait[t].pc = "idle" => ~null_wait[t].latch
  /\ \A e \in fence.events, t \in NullThreads : e.key = t => null_wait[t].pc # "idle"

LEMMA IdleAfterTakingValues ==
  ASSUME IInv, NullThreadsStartIdle, NEW vals, SignalEvents(vals),
         fence'.events \subseteq fence.events
  PROVE  NullThreadsStartIdle'
<1>1. \A t \in NullThreads :
        /\ null_wait'[t].pc = "idle" <=> null_wait[t].pc = "idle"
        /\ null_wait'[t].latch <=>
             (null_wait[t].latch \/ \E e \in EventsReached(fence, vals) : e.key = t)
  BY DEF SignalEvents, IInv, TypeOK, NullWaitType
<1> QED BY <1>1 DEF NullThreadsStartIdle, EventsReached

LEMMA IdleStep == IInv /\ NullThreadsStartIdle /\ [Next]_vars => NullThreadsStartIdle'
<1> SUFFICES ASSUME IInv, NullThreadsStartIdle, [Next]_vars PROVE NullThreadsStartIdle'
  OBVIOUS
<1>t. TypeOK /\ fence \in FenceType /\ null_wait \in [NullThreads -> NullWaitType]
  BY DEF IInv, TypeOK
<1>1. ASSUME NEW value \in Values, SetValue(value) PROVE NullThreadsStartIdle'
  <2>1. SignalEvents({value}) /\ fence'.events \subseteq fence.events
    BY <1>t, <1>1, CpuSignalFields DEF SetValue
  <2> QED BY <2>1, IdleAfterTakingValues
<1>2. CASE (\E value \in Values : CpuSignalFence(value)) \/ Release
  BY <1>1, <1>2, UINT64_MAX_Assumption DEF CpuSignalFence, Release, Values
<1>3. ASSUME NEW h \in Handles, NEW value \in Values, SetEventOnCompletion(h, value)
      PROVE  NullThreadsStartIdle'
  <2>1. null_wait' = null_wait /\ fence'.events \subseteq fence.events \cup {[value |-> value, key |-> h]}
    BY <1>t, <1>3 DEF SetEventOnCompletion, AddEvent, FenceType
  <2> QED BY <2>1, DisjointAssumption DEF NullThreadsStartIdle
<1>4. ASSUME NEW t \in NullThreads, NEW value \in Values, SetNullEventOnCompletion(t, value)
      PROVE  NullThreadsStartIdle'
  <2>1. fence'.events \subseteq fence.events \cup {[value |-> value, key |-> t]}
    BY <1>t, <1>4 DEF SetNullEventOnCompletion, AddEvent, FenceType
  <2>2. null_wait'[t].pc # "idle" /\ \A x \in NullThreads \ {t} : null_wait'[x] = null_wait[x]
    BY <1>t, <1>4 DEF SetNullEventOnCompletion
  <2> QED BY <2>1, <2>2 DEF NullThreadsStartIdle
<1>5. ASSUME NEW t \in NullThreads, NullEventWake(t) PROVE NullThreadsStartIdle'
  <2>1. /\ fence' = fence /\ null_wait'[t].pc # "idle"
        /\ \A x \in NullThreads \ {t} : null_wait'[x] = null_wait[x]
    BY <1>t, <1>5 DEF NullEventWake, NullWaitType
  <2> QED BY <2>1 DEF NullThreadsStartIdle
<1>6. ASSUME null_wait' = null_wait, fence'.events = fence.events PROVE NullThreadsStartIdle'
  BY <1>6 DEF NullThreadsStartIdle
<1>7. ASSUME NEW w \in Waits, NEW value \in Values, RegisterPendingGpuWait(w, value)
      PROVE  NullThreadsStartIdle'
  BY <1>t, <1>6, <1>7 DEF RegisterPendingGpuWait, RegisterWait, FenceType
<1>8. CASE \E w \in Waits : SubmissionThread(w)
  BY <1>t, <1>6, <1>8
  DEF SubmissionThread, WaitSatisfied, WaitSleeps, WaitResolves, ConsumeTicket, FenceType
<1>9. ASSUME NEW q \in VkQueues, NEW value \in Values, ScheduleSignal(q, value)
      PROVE  NullThreadsStartIdle'
  BY <1>t, <1>6, <1>9, AddPendingSignalFields DEF ScheduleSignal
<1>10. ASSUME NEW n \in in_worker, FenceSignal(n) PROVE NullThreadsStartIdle'
  <2>1. SignalEvents(AppliedValues(fence, n)) /\ n \in 1..fence.update_count
    BY <1>10 DEF FenceSignal, IInv, UpdatesAreInWorkers
  <2>2. fence'.events \subseteq fence.events
    BY <1>t, <1>10, <2>1, SignalFields DEF FenceSignal, IInv, UpdatesAreContiguous
  <2> QED BY <2>1, <2>2, IdleAfterTakingValues
<1>11. CASE \E w \in Waits : WaitUntilSignalCountReaches(w)
  BY <1>6, <1>11 DEF WaitUntilSignalCountReaches
<1>12. CASE UNCHANGED vars
  BY <1>6, <1>12 DEF vars
<1> QED BY <1>2, <1>3, <1>4, <1>5, <1>7, <1>8, <1>9, <1>10, <1>11, <1>12 DEF Next

LEMMA IdleInvariant == Spec => []NullThreadsStartIdle
<1>1. Init => NullThreadsStartIdle
  BY DEF Init, IdleNullWait, NewFence, NullThreadsStartIdle
<1> QED BY <1>1, IdleStep, Invariance, PTL DEF Spec

-----------------------------------------------------------------------------
(* Steps of the fence are steps of the contract.                           *)

\* Numbered records: each number of the interval has exactly one.
LEMMA Numbered ==
  ASSUME NEW P, NEW lo \in Nat, NEW hi \in Nat,
         {u.update_count : u \in P} = lo..hi,
         \A u, v \in P : u.update_count = v.update_count => u = v
  PROVE  /\ \A n \in lo..hi : \E u \in P : u.update_count = n
         /\ \A u \in P : u.update_count \in lo..hi
         /\ \A u \in P : (CHOOSE v \in P : v.update_count = u.update_count) = u
<1>1. \A u \in P : (CHOOSE v \in P : v.update_count = u.update_count) = u
  <2> TAKE u \in P
  <2>1. \E v \in P : v.update_count = u.update_count
    OBVIOUS
  <2> QED BY <2>1
<1> QED BY <1>1

LEMMA PromisedUnchanged ==
  ASSUME fence'.pending_updates = fence.pending_updates,
         fence'.signal_count = fence.signal_count,
         fence'.update_count = fence.update_count
  PROVE  Promised' = Promised
BY DEF Promised, UpdateNumber

LEMMA HoldStep ==
  ASSUME IInv, NEW vals \in SUBSET Values, NEW last,
         fence'.virtual_value = last,
         fence'.events = {e \in fence.events : \A v \in vals : v < e.value},
         NotifyWaits(vals), SignalEvents(vals)
  PROVE  Contract!Hold(vals, last) /\ ThroughClients' = ThroughClients
BY TakenValuesMeetRequests DEF Contract!Hold

\* CPU signals and the release.
LEMMA SetValueStep ==
  ASSUME IInv, NEW value \in Values, SetValue(value)
  PROVE  Contract!Next
<1>1. fence \in FenceType /\ fence' = CpuSignal(fence, value)
      /\ NotifyWaits({value}) /\ SignalEvents({value})
  BY DEF IInv, TypeOK, SetValue
<1>2. /\ fence'.virtual_value = value
      /\ fence'.signal_count = fence.signal_count /\ fence'.update_count = fence.update_count
      /\ fence'.pending_updates = fence.pending_updates
      /\ fence'.events = {e \in fence.events : \A v \in {value} : v < e.value}
  BY <1>1, CpuSignalFields
<1>3. Contract!Hold({value}, value) /\ ThroughClients' = ThroughClients
  <2>1. {value} \in SUBSET Values
    OBVIOUS
  <2> QED BY <1>1, <1>2, <2>1, HoldStep
<1>4. Contract!SignalNow(value)
  BY <1>2, <1>3, PromisedUnchanged DEF Contract!SignalNow
<1> QED BY <1>4 DEF Contract!Next

\* The worker of an update that was not applied yet takes the fence there.
LEMMA FenceSignalStep ==
  ASSUME IInv, NEW n \in in_worker, FenceSignal(n)
  PROVE  Contract!Next \/ UNCHANGED Contract!vars
<1> DEFINE vals == AppliedValues(fence, n)
           sc == fence.signal_count
           uc == fence.update_count
<1>1. /\ fence \in FenceType /\ fence' = Signal(fence, n) /\ n \in 1..uc
      /\ NotifyWaits(vals) /\ SignalEvents(vals)
      /\ vals \in SUBSET Values
      /\ sc \in Nat /\ uc \in Nat /\ n \in Nat
  <2>1. /\ fence \in FenceType /\ fence' = Signal(fence, n) /\ n \in 1..uc
        /\ NotifyWaits(vals) /\ SignalEvents(vals)
    BY DEF IInv, TypeOK, FenceSignal, UpdatesAreInWorkers
  <2> QED BY <2>1 DEF FenceType, AppliedValues, Applied, PendingUpdateType
<1>2. /\ fence' \in FenceType
      /\ fence'.virtual_value \in vals \cup {fence.virtual_value}
      /\ fence'.signal_count = IF n > sc THEN n ELSE sc
      /\ fence'.update_count = uc
      /\ fence'.pending_updates = fence.pending_updates \ Applied(fence, n)
      /\ fence'.events = {e \in fence.events : \A v \in vals : v < e.value}
  BY <1>1, SignalFields DEF IInv, UpdatesAreContiguous
<1>3. /\ {u.update_count : u \in fence.pending_updates} = (sc + 1)..uc
      /\ \A u, v \in fence.pending_updates : u.update_count = v.update_count => u = v
  BY DEF IInv, UpdatesAreContiguous
<1>4. /\ \A i \in (sc + 1)..uc : \E u \in fence.pending_updates : u.update_count = i
      /\ \A u \in fence.pending_updates : u.update_count \in (sc + 1)..uc
      /\ \A u \in fence.pending_updates : UpdateNumber(u.update_count) = u
  BY <1>1, <1>3, Numbered DEF UpdateNumber
<1>5. Contract!Hold(vals, fence'.virtual_value) /\ ThroughClients' = ThroughClients
  BY <1>1, <1>2, HoldStep
<1>6. CASE n > sc
  <2>1. PICK own \in fence.pending_updates : own.update_count = n
    BY <1>1, <1>4, <1>6
  <2>2. fence'.virtual_value = own.virtual_value
    BY <1>1, <1>3, <1>6, <2>1, SignalValue
  <2>3. fence'.virtual_value = Promised[n]
    BY <1>1, <1>4, <1>6, <2>1, <2>2 DEF Promised
  <2>4. vals = {Promised[i] : i \in (sc + 1)..n}
    <3>1. ASSUME NEW x \in vals PROVE \E i \in (sc + 1)..n : x = Promised[i]
      <4>1. PICK u \in Applied(fence, n) : x = u.virtual_value
        BY DEF AppliedValues
      <4>2. u \in fence.pending_updates /\ u.update_count \in (sc + 1)..n
        BY <1>1, <1>4 DEF Applied
      <4>3. Promised[u.update_count] = x
        BY <1>4, <4>1, <4>2 DEF Promised
      <4> QED BY <4>2, <4>3
    <3>2. ASSUME NEW i \in (sc + 1)..n PROVE Promised[i] \in vals
      <4>1. i \in (sc + 1)..uc
        BY <1>1
      <4>2. PICK u \in fence.pending_updates : u.update_count = i
        BY <1>4, <4>1
      <4>3. u \in Applied(fence, n)
        BY <1>1, <4>2 DEF Applied
      <4>4. Promised[i] = u.virtual_value
        BY <1>4, <4>1, <4>2 DEF Promised
      <4> QED BY <4>3, <4>4 DEF AppliedValues
    <3> HIDE DEF vals
    <3> QED BY <3>1, <3>2
  <2>5. Promised' = [i \in (n + 1)..uc |-> Promised[i]]
    <3>1. Promised' = [i \in (n + 1)..uc |-> (UpdateNumber(i)').virtual_value]
      BY <1>2, <1>6 DEF Promised
    <3>2. ASSUME NEW i \in (n + 1)..uc
          PROVE  UpdateNumber(i)' = UpdateNumber(i) /\ i \in (sc + 1)..uc
      <4>1. i \in (sc + 1)..uc
        BY <1>1, <1>6
      <4>2. PICK u \in fence.pending_updates : u.update_count = i
        BY <1>4, <4>1
      <4>3. u \in fence'.pending_updates
        BY <1>1, <1>2, <4>2 DEF Applied
      <4>4. \A v \in fence'.pending_updates : v.update_count = i => v = u
        BY <1>2, <1>3, <4>2
      <4>5. (CHOOSE v \in fence'.pending_updates : v.update_count = i) = u
        BY <4>2, <4>3, <4>4
      <4>6. UpdateNumber(i) = u
        BY <1>4, <4>2
      <4>7. UpdateNumber(i)' = u
        BY <4>5 DEF UpdateNumber
      <4> QED BY <4>1, <4>6, <4>7
    <3>3. \A i \in (n + 1)..uc : (UpdateNumber(i)').virtual_value = Promised[i]
      BY <3>2 DEF Promised
    <3> QED BY <3>1, <3>3
  <2>6. n \in (sc + 1)..uc
    BY <1>1, <1>6
  <2>7. Contract!Hold({Promised[i] : i \in (sc + 1)..n}, Promised[n])
    BY <1>5, <2>3, <2>4
  <2>8. Contract!TakeUpTo(n)
    BY <1>2, <1>5, <1>6, <2>5, <2>7 DEF Contract!TakeUpTo
  <2> QED BY <2>6, <2>8 DEF Contract!Next
<1>7. CASE ~(n > sc)
  <2>1. Applied(fence, n) = {} /\ vals = {}
    BY <1>1, <1>7, <1>4 DEF Applied, AppliedValues
  <2>2. /\ fence'.virtual_value = fence.virtual_value
        /\ fence'.pending_updates = fence.pending_updates
        /\ fence'.signal_count = sc
    BY <1>2, <1>7, <2>1
  <2>3. OpenRequests' = OpenRequests /\ MetClients' = MetClients
    BY <1>5, <2>1 DEF Contract!Hold
  <2> QED BY <1>2, <1>5, <2>2, <2>3, PromisedUnchanged DEF Contract!vars
<1> QED BY <1>6, <1>7

\* Submission threads schedule the next signal.
LEMMA ScheduleSignalStep ==
  ASSUME IInv, NEW q \in VkQueues, NEW value \in Values, ScheduleSignal(q, value)
  PROVE  Contract!Next
<1> DEFINE sc == fence.signal_count
           uc == fence.update_count
           next == NextUpdate(fence, value, q, 0)
<1>1. /\ fence \in FenceType /\ fence' = AddPendingSignal(fence, value, q, 0)
      /\ fence.update_count < MaxUpdates
      /\ NotifyWaits({}) /\ signalled' = signalled /\ null_wait' = null_wait
      /\ sc \in Nat /\ uc \in Nat /\ sc <= uc
  BY DEF IInv, TypeOK, ScheduleSignal, FenceType, UpdatesAreContiguous
<1>2. /\ fence'.virtual_value = fence.virtual_value /\ fence'.events = fence.events
      /\ fence'.signal_count = sc /\ fence'.update_count = uc + 1
      /\ fence'.pending_updates = fence.pending_updates \cup {next}
  BY <1>1, AddPendingSignalFields
<1>3. /\ \A i \in (sc + 1)..uc : \E u \in fence.pending_updates : u.update_count = i
      /\ \A u \in fence.pending_updates : u.update_count \in (sc + 1)..uc
      /\ \A u \in fence.pending_updates : UpdateNumber(u.update_count) = u
      /\ \A u, v \in fence.pending_updates : u.update_count = v.update_count => u = v
  <2>1. /\ {u.update_count : u \in fence.pending_updates} = (sc + 1)..uc
        /\ \A u, v \in fence.pending_updates : u.update_count = v.update_count => u = v
    BY DEF IInv, UpdatesAreContiguous
  <2> QED BY <1>1, <2>1, Numbered DEF UpdateNumber
<1>4. next.update_count = uc + 1 /\ next.virtual_value = value
  BY DEF NextUpdate
<1> HIDE DEF next
<1>5. ASSUME NEW i, i = uc + 1 PROVE UpdateNumber(i)' = next
  <2>1. \A v \in fence'.pending_updates : v.update_count = uc + 1 => v = next
    BY <1>1, <1>2, <1>3
  <2>2. (CHOOSE v \in fence'.pending_updates : v.update_count = uc + 1) = next
    BY <1>2, <1>4, <2>1
  <2> QED BY <1>5, <2>2 DEF UpdateNumber
<1>6. ASSUME NEW i \in (sc + 1)..uc PROVE UpdateNumber(i)' = UpdateNumber(i)
  <2>1. PICK u \in fence.pending_updates : u.update_count = i
    BY <1>3
  <2>2. \A v \in fence'.pending_updates : v.update_count = i => v = u
    BY <1>1, <1>2, <1>3, <1>4, <2>1
  <2>3. (CHOOSE v \in fence'.pending_updates : v.update_count = i) = u
    BY <1>2, <2>1, <2>2
  <2>4. UpdateNumber(i)' = u
    BY <2>3 DEF UpdateNumber
  <2>5. UpdateNumber(i) = u
    BY <1>3, <2>1
  <2> QED BY <2>4, <2>5
<1>7. Promised' = [i \in (sc + 1)..(uc + 1) |-> IF i = uc + 1 THEN value ELSE Promised[i]]
  <2>1. Promised' = [i \in (sc + 1)..(uc + 1) |-> (UpdateNumber(i)').virtual_value]
    BY <1>2 DEF Promised
  <2>2. ASSUME NEW i \in (sc + 1)..(uc + 1)
        PROVE  (UpdateNumber(i)').virtual_value = IF i = uc + 1 THEN value ELSE Promised[i]
    <3>1. CASE i = uc + 1
      BY <1>4, <1>5, <3>1
    <3>2. CASE i # uc + 1
      <4>1. i \in (sc + 1)..uc
        BY <1>1, <3>2
      <4>2. Promised[i] = UpdateNumber(i).virtual_value
        BY <4>1 DEF Promised
      <4> QED BY <1>6, <3>2, <4>1, <4>2
    <3> QED BY <3>1, <3>2
  <2> QED BY <2>1, <2>2
<1>8. /\ OpenRequests' = OpenRequests /\ MetClients' = MetClients
      /\ ThroughClients' = ThroughClients
  <2>1. \A w \in Waits :
          /\ wait'[w].value = wait[w].value
          /\ wait'[w].reached <=> wait[w].reached
          /\ Issued(w)' <=> Issued(w)
          /\ wait'[w].pc \in {"satisfied", "ordered"} <=> wait[w].pc \in {"satisfied", "ordered"}
    BY <1>1, NotifiedWaits DEF IInv
  <2>2. OpenRequests' = OpenRequests
    BY <1>2, <2>1 DEF OpenRequests
  <2>3. MetClients' = MetClients /\ ThroughClients' = ThroughClients
    BY <1>1, <2>1 DEF MetClients, ThroughClients
  <2> QED BY <2>2, <2>3
<1>9. Contract!Schedule(value)
  BY <1>2, <1>7, <1>8 DEF Contract!Schedule
<1> QED BY <1>9 DEF Contract!Next

\* SetEventOnCompletion asks; a NULL event may return at once.
LEMMA EventStep ==
  ASSUME IInv, NEW h \in Handles, NEW value \in Values, SetEventOnCompletion(h, value)
  PROVE  Contract!Next
<1>1. fence \in FenceType /\ wait' = wait /\ null_wait' = null_wait
  BY DEF IInv, TypeOK, SetEventOnCompletion
<1>2. CASE value <= fence.virtual_value
  <2>1. fence' = fence /\ signalled' = signalled \cup {h}
    BY <1>2 DEF SetEventOnCompletion
  <2>2. MetClients' = MetClients \cup {h}
    BY <1>1, <2>1 DEF MetClients, Issued
  <2>3. OpenRequests' = OpenRequests /\ ThroughClients' = ThroughClients /\ Promised' = Promised
    BY <1>1, <2>1, PromisedUnchanged DEF OpenRequests, ThroughClients, Issued
  <2> QED BY <1>2, <2>1, <2>2, <2>3 DEF Contract!Next, Contract!Ask
<1>3. CASE ~(value <= fence.virtual_value)
  <2>1. /\ signalled' = signalled /\ fence'.events = fence.events \cup {[value |-> value, key |-> h]}
        /\ fence'.virtual_value = fence.virtual_value
        /\ fence'.signal_count = fence.signal_count /\ fence'.update_count = fence.update_count
        /\ fence'.pending_updates = fence.pending_updates
    BY <1>1, <1>3 DEF SetEventOnCompletion, AddEvent, FenceType
  <2>2. OpenRequests' = OpenRequests \cup {[value |-> value, key |-> h]}
    BY <1>1, <2>1 DEF OpenRequests, Issued
  <2>3. MetClients' = MetClients /\ ThroughClients' = ThroughClients /\ Promised' = Promised
    BY <1>1, <2>1, PromisedUnchanged DEF MetClients, ThroughClients, Issued
  <2> QED BY <1>3, <2>1, <2>2, <2>3 DEF Contract!Next, Contract!Ask
<1> QED BY <1>2, <1>3

LEMMA NullEventStep ==
  ASSUME IInv, NullThreadsStartIdle,
         NEW t \in NullThreads, NEW value \in Values, SetNullEventOnCompletion(t, value)
  PROVE  Contract!Next
<1>1. /\ fence \in FenceType /\ null_wait \in [NullThreads -> NullWaitType]
      /\ wait' = wait /\ signalled' = signalled
      /\ null_wait[t].pc = "idle" /\ ~null_wait[t].latch
  BY DEF IInv, TypeOK, SetNullEventOnCompletion, NullThreadsStartIdle
<1>2. CASE value <= fence.virtual_value
  <2>1. /\ fence' = fence /\ null_wait'[t].pc = "done" /\ null_wait'[t].latch
        /\ \A x \in NullThreads \ {t} : null_wait'[x] = null_wait[x]
    BY <1>1, <1>2 DEF SetNullEventOnCompletion
  <2>2. MetClients' = MetClients \cup {t} /\ ThroughClients' = ThroughClients \cup {t}
    BY <1>1, <2>1 DEF MetClients, ThroughClients, Issued
  <2>3. OpenRequests' = OpenRequests /\ Promised' = Promised
    BY <1>1, <2>1, PromisedUnchanged DEF OpenRequests, Issued
  <2> QED BY <1>2, <2>1, <2>2, <2>3 DEF Contract!Next, Contract!AskAndContinue
<1>3. CASE ~(value <= fence.virtual_value)
  <2>1. /\ fence'.events = fence.events \cup {[value |-> value, key |-> t]}
        /\ fence'.virtual_value = fence.virtual_value
        /\ fence'.signal_count = fence.signal_count /\ fence'.update_count = fence.update_count
        /\ fence'.pending_updates = fence.pending_updates
        /\ null_wait'[t].pc = "asleep" /\ ~null_wait'[t].latch
        /\ \A x \in NullThreads \ {t} : null_wait'[x] = null_wait[x]
    BY <1>1, <1>3 DEF SetNullEventOnCompletion, AddEvent, FenceType
  <2>2. OpenRequests' = OpenRequests \cup {[value |-> value, key |-> t]}
    BY <1>1, <2>1 DEF OpenRequests, Issued
  <2>3. MetClients' = MetClients /\ ThroughClients' = ThroughClients /\ Promised' = Promised
    BY <1>1, <2>1, PromisedUnchanged DEF MetClients, ThroughClients, Issued
  <2> QED BY <1>3, <2>1, <2>2, <2>3 DEF Contract!Next, Contract!Ask
<1> QED BY <1>2, <1>3

\* The woken thread continues if its own request was met, or sleeps again.
LEMMA NullWakeStep ==
  ASSUME IInv, NEW t \in NullThreads, NullEventWake(t)
  PROVE  Contract!Next \/ UNCHANGED Contract!vars
<1>1. /\ null_wait \in [NullThreads -> NullWaitType]
      /\ UNCHANGED <<fence, wait, signalled>>
      /\ null_wait[t].pc = "awake"
      /\ null_wait'[t].pc = IF null_wait[t].latch THEN "done" ELSE "asleep"
      /\ null_wait'[t].latch = null_wait[t].latch
      /\ \A x \in NullThreads \ {t} : null_wait'[x] = null_wait[x]
  BY DEF IInv, TypeOK, NullEventWake, NullWaitType
<1>2. OpenRequests' = OpenRequests /\ MetClients' = MetClients /\ Promised' = Promised
  BY <1>1, PromisedUnchanged DEF OpenRequests, MetClients, Issued
<1>3. CASE null_wait[t].latch
  <2>1. t \in MetClients /\ ThroughClients' = ThroughClients \cup {t}
    BY <1>1, <1>3 DEF MetClients, ThroughClients
  <2> QED BY <1>1, <1>2, <2>1 DEF Contract!Next, Contract!Continue
<1>4. CASE ~null_wait[t].latch
  <2>1. ThroughClients' = ThroughClients
    BY <1>1, <1>4 DEF ThroughClients
  <2> QED BY <1>1, <1>2, <2>1 DEF Contract!vars
<1> QED BY <1>3, <1>4

\* ID3D12CommandQueue::Wait asks on behalf of the queue.
LEMMA RegisterStep ==
  ASSUME IInv, NEW w \in Waits, NEW value \in Values, RegisterPendingGpuWait(w, value)
  PROVE  Contract!Next
<1> DEFINE request(v, x) == [value |-> v, key |-> x]
<1>1. /\ fence \in FenceType /\ wait \in [Waits -> WaitType]
      /\ wait[w].pc = "idle"
      /\ UNCHANGED <<null_wait, signalled>>
      /\ wait'[w].pc = "queued" /\ wait'[w].value = value
      /\ wait'[w].reached = (value <= fence.virtual_value)
      /\ \A v \in Waits \ {w} : wait'[v] = wait[v]
  BY DEF IInv, TypeOK, RegisterPendingGpuWait
<1>2. /\ fence'.virtual_value = fence.virtual_value /\ fence'.events = fence.events
      /\ fence'.signal_count = fence.signal_count /\ fence'.update_count = fence.update_count
      /\ fence'.pending_updates = fence.pending_updates
  BY <1>1 DEF RegisterPendingGpuWait, RegisterWait, FenceType
<1>3. Promised' = Promised /\ ThroughClients' = ThroughClients
  BY <1>1, <1>2, PromisedUnchanged DEF ThroughClients
<1>4. ~Issued(w) /\ Issued(w)' /\ \A v \in Waits \ {w} : Issued(v)' <=> Issued(v)
  BY <1>1 DEF Issued
<1> DEFINE waiting == {v \in Waits : Issued(v) /\ ~wait[v].reached}
           later == {v \in Waits : Issued(v)' /\ ~wait'[v].reached}
<1>r. /\ OpenRequests = fence.events \cup {request(wait[v].value, v) : v \in waiting}
      /\ OpenRequests' = fence'.events \cup {request(wait'[v].value, v) : v \in later}
  BY DEF OpenRequests
<1>v. w \notin waiting /\ \A v \in waiting : wait'[v].value = wait[v].value
  BY <1>1, <1>4
<1>5. CASE value <= fence.virtual_value
  <2>1. OpenRequests' = OpenRequests
    <3>1. later = waiting
      BY <1>1, <1>4, <1>5
    <3> HIDE DEF later, waiting, request
    <3> QED BY <1>2, <1>r, <1>v, <3>1
  <2>2. MetClients' = MetClients \cup {w}
    BY <1>1, <1>4, <1>5 DEF MetClients
  <2> QED BY <1>2, <1>3, <1>5, <2>1, <2>2 DEF Contract!Next, Contract!Ask
<1>6. CASE ~(value <= fence.virtual_value)
  <2>3. OpenRequests' = OpenRequests \cup {request(value, w)}
    <3>1. later = waiting \cup {w} /\ wait'[w].value = value
      BY <1>1, <1>4, <1>6
    <3> HIDE DEF later, waiting, request
    <3> QED BY <1>2, <1>r, <1>v, <3>1
  <2>4. MetClients' = MetClients
    BY <1>1, <1>4, <1>6 DEF MetClients
  <2> QED BY <1>2, <1>3, <1>6, <2>3, <2>4 DEF Contract!Next, Contract!Ask
<1> QED BY <1>5, <1>6

\* Any other step of an issued wait changes at most whether it is through.
LEMMA WaitStep ==
  ASSUME IInv, NEW w \in Waits, Issued(w), NEW pc \in WaitPCs \ {"idle"},
         wait'[w].pc = pc, wait'[w].value = wait[w].value,
         wait'[w].reached = wait[w].reached,
         \A v \in Waits \ {w} : wait'[v] = wait[v],
         fence'.virtual_value = fence.virtual_value, fence'.events = fence.events,
         fence'.signal_count = fence.signal_count, fence'.update_count = fence.update_count,
         fence'.pending_updates = fence.pending_updates,
         UNCHANGED <<null_wait, signalled>>,
         wait[w].pc \notin {"satisfied", "ordered"},
         pc \in {"satisfied", "ordered"} => wait[w].reached
  PROVE  Contract!Next \/ UNCHANGED Contract!vars
<1>1. \A v \in Waits : Issued(v)' <=> Issued(v)
  BY DEF Issued
<1>2. \A v \in Waits : wait'[v].value = wait[v].value /\ wait'[v].reached = wait[v].reached
  OBVIOUS
<1>3. OpenRequests' = OpenRequests /\ MetClients' = MetClients /\ Promised' = Promised
  BY <1>1, <1>2, PromisedUnchanged DEF OpenRequests, MetClients
<1>4. CASE pc \in {"satisfied", "ordered"}
  <2>1. w \in MetClients /\ ThroughClients' = ThroughClients \cup {w}
    BY <1>4 DEF MetClients, ThroughClients
  <2> QED BY <1>3, <2>1 DEF Contract!Next, Contract!Continue
<1>5. CASE pc \notin {"satisfied", "ordered"}
  <2>1. ThroughClients' = ThroughClients
    BY <1>5 DEF ThroughClients
  <2> QED BY <1>3, <2>1 DEF Contract!vars
<1> QED BY <1>4, <1>5

LEMMA SubmissionThreadStep ==
  ASSUME IInv, IInv', NEW w \in Waits, SubmissionThread(w)
  PROVE  Contract!Next \/ UNCHANGED Contract!vars
<1>1. fence \in FenceType /\ wait \in [Waits -> WaitType]
  BY DEF IInv, TypeOK
<1>2. /\ Issued(w) /\ wait[w].pc \notin {"satisfied", "ordered"}
      /\ wait'[w].pc \in {"satisfied", "asleep", "ordering"}
      /\ wait'[w].value = wait[w].value /\ wait'[w].reached = wait[w].reached
      /\ \A v \in Waits \ {w} : wait'[v] = wait[v]
      /\ UNCHANGED <<null_wait, signalled>>
  BY <1>1 DEF SubmissionThread, WaitSatisfied, WaitSleeps, WaitResolves, Unblocked, Issued, WaitType
<1>3. /\ fence'.virtual_value = fence.virtual_value /\ fence'.events = fence.events
      /\ fence'.signal_count = fence.signal_count /\ fence'.update_count = fence.update_count
      /\ fence'.pending_updates = fence.pending_updates
  BY <1>1 DEF SubmissionThread, WaitSatisfied, WaitSleeps, WaitResolves, ConsumeTicket, FenceType
<1>4. wait'[w].pc \in {"satisfied", "ordered"} => wait[w].reached
  BY <1>2 DEF IInv, SatisfiedWasReached
<1>5. wait'[w].pc \in WaitPCs \ {"idle"}
  BY <1>2 DEF WaitPCs
<1> QED BY <1>2, <1>3, <1>4, <1>5, WaitStep

LEMMA OrderWaitStep ==
  ASSUME IInv, OrderedWasReached, NEW w \in Waits, WaitUntilSignalCountReaches(w)
  PROVE  Contract!Next \/ UNCHANGED Contract!vars
<1>1. wait \in [Waits -> WaitType] /\ fence \in FenceType
  BY DEF IInv, TypeOK
<1>2. /\ Issued(w) /\ wait[w].pc \in {"ordering", "order_awake"}
      /\ wait'[w].pc = IF fence.signal_count < wait[w].update THEN "order_asleep" ELSE "ordered"
      /\ wait'[w].value = wait[w].value /\ wait'[w].reached = wait[w].reached
      /\ \A v \in Waits \ {w} : wait'[v] = wait[v]
      /\ UNCHANGED <<fence, null_wait, signalled>>
  BY <1>1 DEF WaitUntilSignalCountReaches, Issued, WaitType
<1>3. wait'[w].pc \in {"satisfied", "ordered"} => wait[w].reached
  <2>1. ~(fence.signal_count < wait[w].update) => wait[w].update <= fence.signal_count
    BY <1>1 DEF WaitType, FenceType
  <2> QED BY <1>2, <2>1 DEF OrderedWasReached
<1>4. wait'[w].pc \in WaitPCs \ {"idle"}
  BY <1>2 DEF WaitPCs
<1> QED BY <1>2, <1>3, <1>4, WaitStep

\* The C implementation of a fence keeps the promises of FenceContract.
THEOREM FenceKeepsContract == Spec => ImplementsContract
<1>1. Init => Contract!Init
  <2> SUFFICES ASSUME Init PROVE Contract!Init
    OBVIOUS
  <2>1. PICK initial \in Values : fence = NewFence(initial)
    BY DEF Init
  <2>2. /\ fence.virtual_value \in Values /\ fence.signal_count = 0 /\ fence.update_count = 0
        /\ fence.events = {}
    BY <2>1 DEF NewFence
  <2>3. Promised = [n \in {} |-> 0]
    BY <2>2 DEF Promised
  <2>4. \A w \in Waits : ~Issued(w) /\ wait[w].pc = "idle"
    BY DEF Init, IdleWait, Issued
  <2>5. OpenRequests = {} /\ MetClients = {} /\ ThroughClients = {}
    BY <2>2, <2>4 DEF Init, IdleNullWait, OpenRequests, MetClients, ThroughClients
  <2> QED BY <2>2, <2>3, <2>5 DEF Contract!Init
<1>2. /\ IInv /\ IInv' /\ OrderedWasReached /\ NullThreadsStartIdle /\ [Next]_vars
      => [Contract!Next]_Contract!vars
  <2> SUFFICES ASSUME IInv, IInv', OrderedWasReached, NullThreadsStartIdle, [Next]_vars
               PROVE  Contract!Next \/ UNCHANGED Contract!vars
    OBVIOUS
  <2>1. CASE (\E value \in Values : CpuSignalFence(value)) \/ Release
    BY <2>1, SetValueStep, UINT64_MAX_Assumption DEF CpuSignalFence, Release, Values
  <2>2. CASE \E h \in Handles, value \in Values : SetEventOnCompletion(h, value)
    BY <2>2, EventStep
  <2>3. CASE \E t \in NullThreads, value \in Values : SetNullEventOnCompletion(t, value)
    BY <2>3, NullEventStep
  <2>4. CASE \E t \in NullThreads : NullEventWake(t)
    BY <2>4, NullWakeStep
  <2>5. CASE \E w \in Waits, value \in Values : RegisterPendingGpuWait(w, value)
    BY <2>5, RegisterStep
  <2>6. CASE \E w \in Waits : SubmissionThread(w)
    BY <2>6, SubmissionThreadStep
  <2>7. CASE \E q \in VkQueues, value \in Values : ScheduleSignal(q, value)
    BY <2>7, ScheduleSignalStep
  <2>8. CASE \E n \in in_worker : FenceSignal(n)
    BY <2>8, FenceSignalStep
  <2>9. CASE \E w \in Waits : WaitUntilSignalCountReaches(w)
    BY <2>9, OrderWaitStep
  <2>10. CASE UNCHANGED vars
    BY <2>10 DEF vars, Contract!vars, Promised, UpdateNumber, OpenRequests, MetClients,
                 ThroughClients, Issued
  <2> QED BY <2>1, <2>2, <2>3, <2>4, <2>5, <2>6, <2>7, <2>8, <2>9, <2>10 DEF Next
<1> QED
  BY <1>1, <1>2, Invariance, OrderedCorrect, IdleInvariant, PTL
  DEF Spec, ImplementsContract, Contract!Spec

===============================================================================
