----------------------------- MODULE FenceEvents -----------------------------
(***************************************************************************)
(* Events that wait for several fences (device.c:8249,                     *)
(* ID3D12Device1::SetEventOnMultipleFenceCompletion), native fences that    *)
(* fire them under their mutex, and shared fences with their worker thread, *)
(* which is started on demand and joined by the last reference              *)
(* (command.c:1856-2127).                                                  *)
(*                                                                         *)
(* The fences of one call share a payload: a word with a reference count    *)
(* and a signal bit, used with atomic operations only and freed by whoever  *)
(* takes the count to 0. reg[c][f] says how far fence f is with call c; a   *)
(* call waits for value 1 of each of its fences.                           *)
(***************************************************************************)
EXTENDS Naturals, FiniteSets

CONSTANTS
  Native,      \* fences of struct d3d12_fence
  Shared,      \* fences of struct d3d12_shared_fence
  Calls,       \* calls of SetEvent[OnMultipleFence]Completion
  FencesFor,   \* FencesFor[c]: the sets of fences that call c may name
  NullModes,   \* the kinds of call that may be given a NULL event
  MaxSignals,  \* bound on the CPU signals of each native fence
  MayFail      \* whether a registration may run out of memory

ASSUME FencesDisjoint == Native \cap Shared = {}
ASSUME FencesFinite == IsFiniteSet(Native \cup Shared)
ASSUME FencesExist == Native \cup Shared # {}
ASSUME MaxSignalsType == MaxSignals \in Nat
ASSUME FencesForType == FencesFor \in [Calls -> SUBSET ((SUBSET (Native \cup Shared)) \ {{}})]

Fences == Native \cup Shared

VARIABLES
  value,     \* value[f]: virtual_value, or the counter of the semaphore
  signalled, \* signalled[f]: how often the native fence f was signalled
  lock,      \* lock[f]: who holds fence->mutex: "free", "owner", or a call
  worker,    \* worker[f]: thread of the shared fence f
  running,   \* running[f]: fence->is_running
  held,      \* held[f]: the application's reference and its release
  mode,      \* mode[c]: vkd3d_waiting_event_type of the call
  null,      \* null[c]: the application passed no event
  reg,       \* reg[c][f]: progress of fence f with the event of c
  claim,     \* claim[c]: the fences that found do_signal true
  count, bit,\* payload of c
  freed,     \* freed[c]: how often the payload was freed
  signals,   \* signals[c]: how often the event was signalled
  latch,     \* latch[c]: *event->latch
  pc, at,    \* the calling thread, and the fence it is registering
  failed,    \* failed[c]: a registration failed
  result,    \* result[c]: the HRESULT
  seen       \* seen[c]: fences that had the value at some time since the call

vars == <<value, signalled, lock, worker, running, held, mode, null, reg, claim,
          count, bit, freed, signals, latch, pc, at, failed, result, seen>>

fenceVars == <<value, signalled, lock, worker, running, held>>
callVars  == <<mode, null, pc, at, failed, result>>
eventVars == <<claim, count, bit, freed, signals, latch>>

Progress == {"no", "todo", "listed", "due", "fires", "claims", "drops", "frees",
             "signals", "done", "dropped"}
\* Inside vkd3d_waiting_event_signal.
Firing   == {"fires", "claims", "drops", "frees", "signals"}
\* The fence still has its reference of the payload ("dropped": for ever).
Counted  == {"todo", "listed", "due", "fires", "claims", "drops", "dropped"}

Multi(c)     == mode[c] \in {"all", "any"}
\* ANY with a NULL event uses a temporary event.
Valid(c)     == ~null[c] \/ mode[c] = "any"
FencesOf(c)  == {f \in Fences : reg[c][f] # "no"}
Todo(c)      == {f \in Fences : reg[c][f] = "todo"}
Owing(c)     == {f \in Fences : reg[c][f] \in Counted}
Listed(f)    == {c \in Calls : reg[c][f] = "listed"}
Inline(c, f) == pc[c] = "inline" /\ at[c] = f
\* What the holder of the mutex of f has left to do with its events.
OwnerBusy(f) == \E c \in Calls : reg[c][f] \in Firing /\ ~Inline(c, f)
OwnerDue(f)  == \E c \in Calls : reg[c][f] = "due"

NoFence       == CHOOSE f \in Fences : TRUE
Move(c, f, p) == reg' = [reg EXCEPT ![c][f] = p]
\* The events of f that its new value has reached become due.
AllDue(f)     == reg' = [c \in Calls |-> [reg[c] EXCEPT
                           ![f] = IF @ = "listed" THEN "due" ELSE @]]
\* History: the calls in progress or registered see fence f reach the value.
Reaches(f)    == seen' = [c \in Calls |-> IF pc[c] = "idle" THEN seen[c]
                                          ELSE seen[c] \cup {f}]

Init ==
  /\ value \in [Fences -> {0, 1}]  \* initial_value
  /\ signalled = [f \in Native |-> 0]
  /\ lock = [f \in Fences |-> "free"]
  /\ worker = [f \in Shared |-> "none"]
  /\ running = [f \in Shared |-> FALSE]
  /\ held = [f \in Shared |-> "held"]
  /\ mode = [c \in Calls |-> "single"]
  /\ null = [c \in Calls |-> FALSE]
  /\ reg = [c \in Calls |-> [f \in Fences |-> "no"]]
  /\ claim = [c \in Calls |-> {}]
  /\ count = [c \in Calls |-> 0]
  /\ bit = [c \in Calls |-> FALSE]
  /\ freed = [c \in Calls |-> 0]
  /\ signals = [c \in Calls |-> 0]
  /\ latch = [c \in Calls |-> FALSE]
  /\ pc = [c \in Calls |-> "idle"]
  /\ at = [c \in Calls |-> NoFence]
  /\ failed = [c \in Calls |-> FALSE]
  /\ result = [c \in Calls |-> "none"]
  /\ seen = [c \in Calls |-> {}]

-----------------------------------------------------------------------------
(* vkd3d_waiting_event_signal, for the event of call c on fence f           *)

After(c, f) == IF f \in claim[c] THEN "signals" ELSE "done"

FireSingle(c, f) ==
  /\ reg[c][f] = "fires" /\ mode[c] = "single"
  /\ claim' = [claim EXCEPT ![c] = @ \cup {f}]
  /\ Move(c, f, "signals")
  /\ UNCHANGED <<fenceVars, callVars, count, bit, freed, signals, latch, seen>>

\* Faulty variant: the signal bit is not looked at when the count is 0.
FireAll_IgnoresBit(c, f) ==
  /\ reg[c][f] = "fires" /\ mode[c] = "all"
  /\ count' = [count EXCEPT ![c] = @ - 1]
  /\ claim' = [claim EXCEPT ![c] = IF count[c] = 1 THEN @ \cup {f} ELSE @]
  /\ Move(c, f, IF count[c] = 1 THEN "frees" ELSE "done")
  /\ UNCHANGED <<fenceVars, callVars, bit, freed, signals, latch, seen>>

\* ALL: one decrement returns count and bit together.
FireAll(c, f) ==
  /\ reg[c][f] = "fires" /\ mode[c] = "all"
  /\ count' = [count EXCEPT ![c] = @ - 1]
  /\ claim' = [claim EXCEPT ![c] = IF count[c] = 1 /\ bit[c] THEN @ \cup {f} ELSE @]
  /\ Move(c, f, IF count[c] = 1 THEN "frees" ELSE "done")
  /\ UNCHANGED <<fenceVars, callVars, bit, freed, signals, latch, seen>>

\* ANY: the bit is loaded, then cleared by one fence of those that saw it.
FireLoad(c, f) ==
  /\ reg[c][f] = "fires" /\ mode[c] = "any"
  /\ Move(c, f, IF bit[c] THEN "claims" ELSE "drops")
  /\ UNCHANGED <<fenceVars, callVars, eventVars, seen>>

\* Faulty variant: what was loaded decides, not the old value of the AND.
FireClaim_Loaded(c, f) ==
  /\ reg[c][f] = "claims"
  /\ claim' = [claim EXCEPT ![c] = @ \cup {f}]
  /\ bit' = [bit EXCEPT ![c] = FALSE]
  /\ Move(c, f, "drops")
  /\ UNCHANGED <<fenceVars, callVars, count, freed, signals, latch, seen>>

FireClaim(c, f) ==
  /\ reg[c][f] = "claims"
  /\ claim' = [claim EXCEPT ![c] = IF bit[c] THEN @ \cup {f} ELSE @]
  /\ bit' = [bit EXCEPT ![c] = FALSE]
  /\ Move(c, f, "drops")
  /\ UNCHANGED <<fenceVars, callVars, count, freed, signals, latch, seen>>

\* Faulty variant: who signals an ANY event also frees its payload.
FireDrop_ClaimantFrees(c, f) ==
  /\ reg[c][f] = "drops"
  /\ count' = [count EXCEPT ![c] = @ - 1]
  /\ Move(c, f, IF count[c] = 1 \/ f \in claim[c] THEN "frees" ELSE After(c, f))
  /\ UNCHANGED <<fenceVars, callVars, claim, bit, freed, signals, latch, seen>>

FireDrop(c, f) ==
  /\ reg[c][f] = "drops"
  /\ count' = [count EXCEPT ![c] = @ - 1]
  /\ Move(c, f, IF count[c] = 1 THEN "frees" ELSE After(c, f))
  /\ UNCHANGED <<fenceVars, callVars, claim, bit, freed, signals, latch, seen>>

FireFree(c, f) ==
  /\ reg[c][f] = "frees"
  /\ freed' = [freed EXCEPT ![c] = @ + 1]
  /\ Move(c, f, After(c, f))
  /\ UNCHANGED <<fenceVars, callVars, claim, count, bit, signals, latch, seen>>

\* Faulty variant: only event handles are signalled.
FireSignal_NoLatch(c, f) ==
  /\ reg[c][f] = "signals"
  /\ IF Valid(c) THEN /\ signals' = [signals EXCEPT ![c] = @ + 1]
                      /\ UNCHANGED latch
                 ELSE /\ UNCHANGED latch
                      /\ UNCHANGED signals
  /\ Move(c, f, "done")
  /\ UNCHANGED <<fenceVars, callVars, claim, count, bit, freed, seen>>

FireSignal(c, f) ==
  /\ reg[c][f] = "signals"
  /\ IF Valid(c) THEN /\ signals' = [signals EXCEPT ![c] = @ + 1]
                      /\ UNCHANGED latch
                 ELSE /\ latch' = [latch EXCEPT ![c] = TRUE]
                      /\ UNCHANGED signals
  /\ Move(c, f, "done")
  /\ UNCHANGED <<fenceVars, callVars, claim, count, bit, freed, seen>>

Fire(c, f) == FireSingle(c, f) \/ FireAll(c, f) \/ FireLoad(c, f) \/ FireClaim(c, f)
              \/ FireDrop(c, f) \/ FireFree(c, f) \/ FireSignal(c, f)

-----------------------------------------------------------------------------
(* The calling thread                                                      *)

\* Faulty variant: the call's own fence is not counted.
Call_OneShort(c, m, isNull, fs) ==
  /\ pc[c] = "idle"
  /\ (m = "single") = (Cardinality(fs) = 1)
  /\ isNull => m \in NullModes
  /\ \A f \in fs \cap Shared : held[f] = "held"
  /\ mode' = [mode EXCEPT ![c] = m]
  /\ null' = [null EXCEPT ![c] = isNull]
  /\ reg' = [reg EXCEPT ![c] = [f \in Fences |-> IF f \in fs THEN "todo" ELSE "no"]]
  /\ count' = [count EXCEPT ![c] = Cardinality(fs) - 1]
  /\ bit' = [bit EXCEPT ![c] = TRUE]
  /\ seen' = [seen EXCEPT ![c] = {f \in Fences : value[f] = 1}]
  /\ pc' = [pc EXCEPT ![c] = "register"]
  /\ UNCHANGED <<fenceVars, claim, freed, signals, latch, at, failed, result>>

\* One fence is the plain SetEventOnCompletion; the payload counts the fences.
Call(c, m, isNull, fs) ==
  /\ pc[c] = "idle"
  /\ (m = "single") = (Cardinality(fs) = 1)
  /\ isNull => m \in NullModes
  /\ \A f \in fs \cap Shared : held[f] = "held"
  /\ mode' = [mode EXCEPT ![c] = m]
  /\ null' = [null EXCEPT ![c] = isNull]
  /\ reg' = [reg EXCEPT ![c] = [f \in Fences |-> IF f \in fs THEN "todo" ELSE "no"]]
  /\ count' = [count EXCEPT ![c] = Cardinality(fs)]
  /\ bit' = [bit EXCEPT ![c] = TRUE]
  /\ seen' = [seen EXCEPT ![c] = {f \in Fences : value[f] = 1}]
  /\ pc' = [pc EXCEPT ![c] = "register"]
  /\ UNCHANGED <<fenceVars, claim, freed, signals, latch, at, failed, result>>

\* value <= virtual_value: the event fires at once, under the mutex.
RegisterReachedNative(c, f) ==
  /\ pc[c] = "register" /\ f \in Native /\ reg[c][f] = "todo"
  /\ lock[f] = "free" /\ value[f] = 1
  /\ lock' = [lock EXCEPT ![f] = c]
  /\ Move(c, f, "fires")
  /\ pc' = [pc EXCEPT ![c] = "inline"]
  /\ at' = [at EXCEPT ![c] = f]
  /\ UNCHANGED <<value, signalled, worker, running, held, mode, null, failed, result, eventVars, seen>>

\* The event is appended; without an event handle the thread sleeps until its
\* latch is set.
RegisterNative(c, f) ==
  /\ pc[c] = "register" /\ f \in Native /\ reg[c][f] = "todo"
  /\ lock[f] = "free" /\ value[f] = 0
  /\ Move(c, f, "listed")
  /\ pc' = [pc EXCEPT ![c] = IF Valid(c) THEN "register" ELSE "latch"]
  /\ at' = [at EXCEPT ![c] = IF Valid(c) THEN @ ELSE f]
  /\ latch' = [latch EXCEPT ![c] = FALSE]
  /\ UNCHANGED <<fenceVars, mode, null, failed, result, claim, count, bit, freed, signals, seen>>

Latched(c) ==
  /\ pc[c] = "latch" /\ latch[c] /\ lock[at[c]] = "free"
  /\ pc' = [pc EXCEPT ![c] = "register"]
  /\ at' = [at EXCEPT ![c] = NoFence]
  /\ UNCHANGED <<fenceVars, mode, null, failed, result, reg, eventVars, seen>>

\* A shared fence is read without its mutex.
RegisterReachedShared(c, f) ==
  /\ pc[c] = "register" /\ f \in Shared /\ reg[c][f] = "todo" /\ Valid(c)
  /\ value[f] = 1
  /\ Move(c, f, "fires")
  /\ pc' = [pc EXCEPT ![c] = "inline"]
  /\ at' = [at EXCEPT ![c] = f]
  /\ UNCHANGED <<fenceVars, mode, null, failed, result, eventVars, seen>>

ReadShared(c, f) ==
  /\ pc[c] = "register" /\ f \in Shared /\ reg[c][f] = "todo" /\ Valid(c)
  /\ value[f] = 0
  /\ pc' = [pc EXCEPT ![c] = "list"]
  /\ at' = [at EXCEPT ![c] = f]
  /\ UNCHANGED <<fenceVars, mode, null, failed, result, reg, eventVars, seen>>

\* Faulty variant: a worker that exists is not woken.
ListShared_Silently(c) ==
  LET f == at[c] IN
  /\ pc[c] = "list" /\ lock[f] = "free"
  /\ Move(c, f, "listed")
  /\ running' = [running EXCEPT ![f] = TRUE]
  /\ worker' = [worker EXCEPT ![f] = IF ~running[f] THEN "top" ELSE @]
  /\ pc' = [pc EXCEPT ![c] = "register"]
  /\ at' = [at EXCEPT ![c] = NoFence]
  /\ UNCHANGED <<value, signalled, lock, held, mode, null, failed, result, eventVars, seen>>

\* The first event starts the worker, later ones wake it.
ListShared(c) ==
  LET f == at[c] IN
  /\ pc[c] = "list" /\ lock[f] = "free"
  /\ Move(c, f, "listed")
  /\ running' = [running EXCEPT ![f] = TRUE]
  /\ worker' = [worker EXCEPT ![f] =
                  IF ~running[f] \/ @ = "asleep" THEN "top" ELSE @]
  /\ pc' = [pc EXCEPT ![c] = "register"]
  /\ at' = [at EXCEPT ![c] = NoFence]
  /\ UNCHANGED <<value, signalled, lock, held, mode, null, failed, result, eventVars, seen>>

\* A NULL event on a shared fence: vkWaitSemaphores, and the payload is not used.
WaitShared(c, f) ==
  /\ pc[c] = "register" /\ f \in Shared /\ reg[c][f] = "todo" /\ ~Valid(c)
  /\ value[f] = 1
  /\ Move(c, f, "dropped")
  /\ UNCHANGED <<fenceVars, callVars, eventVars, seen>>

\* The inline firing returns; a native fence is unlocked.
InlineDone(c) ==
  /\ pc[c] = "inline" /\ reg[c][at[c]] = "done"
  /\ lock' = [lock EXCEPT ![at[c]] = IF @ = c THEN "free" ELSE @]
  /\ pc' = [pc EXCEPT ![c] = "register"]
  /\ at' = [at EXCEPT ![c] = NoFence]
  /\ UNCHANGED <<value, signalled, worker, running, held, mode, null, failed, result, reg, eventVars, seen>>

\* No memory for the event: fences that have it must not signal it any more.
\* If the bit was cleared before, the event has been signalled or will be.
RegisterFails(c, f) ==
  /\ MayFail /\ Multi(c)
  /\ \/ pc[c] = "register" /\ f \in Native /\ lock[f] = "free" /\ value[f] = 0
     \/ pc[c] = "list" /\ f = at[c]
  /\ reg[c][f] = "todo"
  /\ bit' = [bit EXCEPT ![c] = FALSE]
  /\ result' = [result EXCEPT ![c] = IF bit[c] THEN "failed" ELSE "ok"]
  /\ failed' = [failed EXCEPT ![c] = TRUE]
  /\ pc' = [pc EXCEPT ![c] = "abandon"]
  /\ at' = [at EXCEPT ![c] = NoFence]
  /\ UNCHANGED <<fenceVars, mode, null, reg, claim, count, freed, signals, latch, seen>>

\* Faulty variant: the reference of the fence that failed is forgotten.
Abandon_OneLess(c) ==
  /\ pc[c] = "abandon"
  /\ count' = [count EXCEPT ![c] = @ - (Cardinality(Todo(c)) - 1)]
  /\ reg' = [reg EXCEPT ![c] = [f \in Fences |-> IF f \in Todo(c) THEN "no" ELSE reg[c][f]]]
  /\ pc' = [pc EXCEPT ![c] = IF count[c] = Cardinality(Todo(c)) - 1 THEN "free" ELSE "returned"]
  /\ UNCHANGED <<fenceVars, mode, null, at, failed, result, claim, bit, freed, signals, latch, seen>>

\* Faulty variant: the references of all fences are returned.
Abandon_All(c) ==
  /\ pc[c] = "abandon"
  /\ count' = [count EXCEPT ![c] = @ - Cardinality(FencesOf(c))]
  /\ reg' = [reg EXCEPT ![c] = [f \in Fences |-> IF f \in Todo(c) THEN "no" ELSE reg[c][f]]]
  /\ pc' = [pc EXCEPT ![c] = IF count[c] = Cardinality(Todo(c)) THEN "free" ELSE "returned"]
  /\ UNCHANGED <<fenceVars, mode, null, at, failed, result, claim, bit, freed, signals, latch, seen>>

\* fence_count - i references are returned at once.
Abandon(c) ==
  /\ pc[c] = "abandon"
  /\ count' = [count EXCEPT ![c] = @ - Cardinality(Todo(c))]
  /\ reg' = [reg EXCEPT ![c] = [f \in Fences |-> IF f \in Todo(c) THEN "no" ELSE reg[c][f]]]
  /\ pc' = [pc EXCEPT ![c] = IF count[c] = Cardinality(Todo(c)) THEN "free" ELSE "returned"]
  /\ UNCHANGED <<fenceVars, mode, null, at, failed, result, claim, bit, freed, signals, latch, seen>>

FreeAbandoned(c) ==
  /\ pc[c] = "free"
  /\ freed' = [freed EXCEPT ![c] = @ + 1]
  /\ pc' = [pc EXCEPT ![c] = "returned"]
  /\ UNCHANGED <<fenceVars, mode, null, at, failed, result, reg, claim, count, bit, signals, latch, seen>>

\* All registered. ANY with a NULL event waits for the temporary event.
Registered(c) ==
  /\ pc[c] = "register" /\ Todo(c) = {}
  /\ null[c] /\ mode[c] = "any" => signals[c] > 0
  /\ result' = [result EXCEPT ![c] = "ok"]
  /\ pc' = [pc EXCEPT ![c] = "returned"]
  /\ UNCHANGED <<fenceVars, mode, null, at, failed, reg, eventVars, seen>>

-----------------------------------------------------------------------------
(* Native fences: d3d12_fence_signal_external_events_locked                 *)

\* Any thread that sets the value, from the CPU or as a fence worker.
SignalNative(f, v) ==
  /\ lock[f] = "free" /\ signalled[f] < MaxSignals
  /\ signalled' = [signalled EXCEPT ![f] = @ + 1]
  /\ value' = [value EXCEPT ![f] = v]
  /\ lock' = [lock EXCEPT ![f] = "owner"]
  /\ IF v = 1 THEN AllDue(f) /\ Reaches(f) ELSE UNCHANGED <<reg, seen>>
  /\ UNCHANGED <<worker, running, held, callVars, eventVars>>

\* The next event of the loop, for the holder of the mutex.
OwnerFires(c, f) ==
  /\ lock[f] = "owner" /\ reg[c][f] = "due" /\ ~OwnerBusy(f)
  /\ Move(c, f, "fires")
  /\ UNCHANGED <<fenceVars, callVars, eventVars, seen>>

OwnerUnlocks(f) ==
  /\ f \in Native /\ lock[f] = "owner" /\ ~OwnerBusy(f) /\ ~OwnerDue(f)
  /\ lock' = [lock EXCEPT ![f] = "free"]
  /\ UNCHANGED <<value, signalled, worker, running, held, callVars, reg, eventVars, seen>>

-----------------------------------------------------------------------------
(* Shared fences: vkd3d_shared_fence_worker_main                            *)

\* The semaphore is signalled by the CPU, a queue, or another process.
SignalShared(f) ==
  /\ value[f] = 0
  /\ value' = [value EXCEPT ![f] = 1]
  /\ Reaches(f)
  /\ UNCHANGED <<signalled, lock, worker, running, held, callVars, reg, eventVars>>

WorkerSleeps(f) ==
  /\ worker[f] = "top" /\ lock[f] = "free"
  /\ running[f] /\ Listed(f) = {}
  /\ worker' = [worker EXCEPT ![f] = "asleep"]
  /\ UNCHANGED <<value, signalled, lock, running, held, callVars, reg, eventVars, seen>>

WorkerScans(f) ==
  /\ worker[f] = "top" /\ lock[f] = "free"
  /\ value[f] = 1 /\ Listed(f) # {}
  /\ worker' = [worker EXCEPT ![f] = "scan"]
  /\ lock' = [lock EXCEPT ![f] = "owner"]
  /\ AllDue(f)
  /\ UNCHANGED <<value, signalled, running, held, callVars, eventVars, seen>>

\* No event has been reached: end, or wait at most 10 ms for the semaphore,
\* without the mutex.
WorkerWaits(f) ==
  /\ worker[f] = "top" /\ lock[f] = "free"
  /\ ~running[f] \/ Listed(f) # {}
  /\ ~(value[f] = 1 /\ Listed(f) # {})
  /\ worker' = [worker EXCEPT ![f] = IF running[f] THEN "polls" ELSE "exited"]
  /\ UNCHANGED <<value, signalled, lock, running, held, callVars, reg, eventVars, seen>>

\* Every listed event of a reached fence was due, and the list is empty now.
WorkerScanned(f) ==
  /\ worker[f] = "scan" /\ ~OwnerBusy(f) /\ ~OwnerDue(f)
  /\ lock' = [lock EXCEPT ![f] = "free"]
  /\ worker' = [worker EXCEPT ![f] = IF running[f] THEN "top" ELSE "exited"]
  /\ UNCHANGED <<value, signalled, running, held, callVars, reg, eventVars, seen>>

\* VK_SUCCESS or VK_TIMEOUT.
WorkerPolled(f) ==
  /\ worker[f] = "polls"
  /\ worker' = [worker EXCEPT ![f] = "top"]
  /\ UNCHANGED <<value, signalled, lock, running, held, callVars, reg, eventVars, seen>>

\* The last reference. Whoever is in a call on the fence has one.
ReleaseShared(f) ==
  /\ held[f] = "held"
  /\ \A c \in Calls : f \in FencesOf(c) => pc[c] = "returned"
  /\ held' = [held EXCEPT ![f] = "stops"]
  /\ UNCHANGED <<value, signalled, lock, worker, running, callVars, reg, eventVars, seen>>

\* Faulty variant: the worker is not woken to see that it has to end.
StopWorker_Silently(f) ==
  /\ held[f] = "stops" /\ lock[f] = "free"
  /\ running' = [running EXCEPT ![f] = FALSE]
  /\ held' = [held EXCEPT ![f] = IF running[f] THEN "joins" ELSE "frees"]
  /\ UNCHANGED <<value, signalled, lock, worker, callVars, reg, eventVars, seen>>

StopWorker(f) ==
  /\ held[f] = "stops" /\ lock[f] = "free"
  /\ running' = [running EXCEPT ![f] = FALSE]
  /\ worker' = [worker EXCEPT ![f] = IF running[f] /\ @ = "asleep" THEN "top" ELSE @]
  /\ held' = [held EXCEPT ![f] = IF running[f] THEN "joins" ELSE "frees"]
  /\ UNCHANGED <<value, signalled, lock, callVars, reg, eventVars, seen>>

JoinWorker(f) ==
  /\ held[f] = "joins" /\ worker[f] = "exited"
  /\ held' = [held EXCEPT ![f] = "frees"]
  /\ UNCHANGED <<value, signalled, lock, worker, running, callVars, reg, eventVars, seen>>

\* Events that are still waiting are freed with the fence.
FreeShared(f) ==
  /\ held[f] = "frees"
  /\ held' = [held EXCEPT ![f] = "gone"]
  /\ reg' = [c \in Calls |-> [reg[c] EXCEPT ![f] = IF @ = "listed" THEN "dropped" ELSE @]]
  /\ UNCHANGED <<value, signalled, lock, worker, running, callVars, eventVars, seen>>

-----------------------------------------------------------------------------
Calling(c) ==
  \E m \in {"single", "all", "any"}, isNull \in BOOLEAN, fs \in FencesFor[c] :
    Call(c, m, isNull, fs)

CallNext(c) ==
  \/ \E f \in Fences : \/ RegisterReachedNative(c, f) \/ RegisterNative(c, f)
                       \/ RegisterReachedShared(c, f) \/ ReadShared(c, f)
                       \/ WaitShared(c, f) \/ RegisterFails(c, f)
  \/ ListShared(c) \/ Latched(c) \/ InlineDone(c)
  \/ Abandon(c) \/ FreeAbandoned(c) \/ Registered(c)

FenceNext(f) ==
  \/ \E c \in Calls : Fire(c, f) \/ OwnerFires(c, f)
  \/ OwnerUnlocks(f)

\* A signal with the value that the fence has already finds no event to fire.
NativeNext(f) == \E v \in {0, 1} \ {value[f]} : SignalNative(f, v)

SharedNext(f) ==
  \/ SignalShared(f) \/ WorkerSleeps(f) \/ WorkerScans(f) \/ WorkerWaits(f)
  \/ WorkerScanned(f) \/ WorkerPolled(f) \/ ReleaseShared(f) \/ StopWorker(f) \/ JoinWorker(f)
  \/ FreeShared(f)

Next ==
  \/ \E c \in Calls : Calling(c) \/ CallNext(c)
  \/ \E f \in Fences : FenceNext(f)
  \/ \E f \in Native : NativeNext(f)
  \/ \E f \in Shared : SharedNext(f)

Spec == Init /\ [][Next]_vars

\* Threads that can run do run; nobody need call, signal or release anything.
\* A call that was begun goes on to its end.
OwnerRuns(f) ==
  \/ \E c \in Calls : OwnerFires(c, f) \/ (~Inline(c, f) /\ Fire(c, f))
  \/ OwnerUnlocks(f)
  \/ f \in Shared /\ (WorkerSleeps(f) \/ WorkerScans(f) \/ WorkerWaits(f)
                      \/ WorkerScanned(f) \/ WorkerPolled(f))
CallerRuns(c) == CallNext(c) \/ \E f \in Fences : Inline(c, f) /\ Fire(c, f)
ReleaserRuns(f) == StopWorker(f) \/ JoinWorker(f) \/ FreeShared(f)

ThreadsRun ==
  /\ \A f \in Fences : WF_vars(OwnerRuns(f))
  /\ \A c \in Calls : WF_vars(CallerRuns(c))
  /\ \A f \in Shared : WF_vars(ReleaserRuns(f))

FairSpec == Spec /\ ThreadsRun

-----------------------------------------------------------------------------
TypeOK ==
  /\ value \in [Fences -> {0, 1}]
  /\ signalled \in [Native -> 0 .. MaxSignals]
  /\ lock \in [Fences -> {"free", "owner"} \cup Calls]
  /\ worker \in [Shared -> {"none", "top", "asleep", "scan", "polls", "exited"}]
  /\ running \in [Shared -> BOOLEAN]
  /\ held \in [Shared -> {"held", "stops", "joins", "frees", "gone"}]
  /\ mode \in [Calls -> {"single", "all", "any"}]
  /\ null \in [Calls -> BOOLEAN]
  /\ reg \in [Calls -> [Fences -> Progress]]
  /\ claim \in [Calls -> SUBSET Fences]
  /\ count \in [Calls -> Nat]
  /\ bit \in [Calls -> BOOLEAN]
  /\ freed \in [Calls -> Nat]
  /\ signals \in [Calls -> Nat]
  /\ latch \in [Calls -> BOOLEAN]
  /\ pc \in [Calls -> {"idle", "register", "inline", "latch", "list", "abandon",
                       "free", "returned"}]
  /\ at \in [Calls -> Fences]
  /\ failed \in [Calls -> BOOLEAN]
  /\ result \in [Calls -> {"none", "ok", "failed"}]
  /\ seen \in [Calls -> SUBSET Fences]

\* The count of the payload is the number of fences that will still use it
\* (or were destroyed, or waited without it): nobody can find it freed.
PayloadCountsReferences ==
  \A c \in Calls : Multi(c) /\ pc[c] # "idle" => count[c] = Cardinality(Owing(c))

Freeing(c) == {f \in Fences : reg[c][f] = "frees"}

\* The payload is freed by the last reference, whoever that is, and by nobody
\* else: one of the fences, on whatever thread, or the call that gave up.
PayloadFreedOnce ==
  \A c \in Calls : Multi(c) /\ pc[c] # "idle" =>
    freed[c] + Cardinality(Freeing(c)) + (IF pc[c] = "free" THEN 1 ELSE 0)
      = (IF Owing(c) = {} THEN 1 ELSE 0)

\* Several fences race for an event in ANY mode: one of them signals it.
SignalledAtMostOnce == \A c \in Calls : signals[c] <= 1

\* An event (or latch) is signalled only after the fences it waits for had their
\* values: all of them, or one of them. Other fences may have been rewound since.
SignalMeansReached ==
  \A c \in Calls : signals[c] > 0 \/ latch[c] =>
    IF mode[c] = "any" THEN seen[c] \cap FencesOf(c) # {} ELSE FencesOf(c) \subseteq seen[c]

\* A call that reports failure leaves an event that is never signalled, and one
\* that failed after its event was claimed reports success (device.c:8312).
FailureIsExclusive ==
  \A c \in Calls : failed[c] => (result[c] = "ok") = (claim[c] # {})

Fulfilled(c) ==
  /\ pc[c] = "returned" /\ result[c] = "ok"
  /\ LET Through(f) == \/ reg[c][f] \notin {"listed", "dropped", "no"}
                       \/ reg[c][f] = "listed" /\ value[f] = 1
     IN IF mode[c] = "any" THEN \E f \in FencesOf(c) : Through(f)
                           ELSE \A f \in FencesOf(c) : Through(f)

\* No event is lost between registration, signal and worker: once the fences it
\* waits for got there it is signalled, unless one was destroyed meanwhile.
EventFollowsFences ==
  \A c \in Calls : Fulfilled(c) ~>
    \/ signals[c] = 1 \/ latch[c] \/ (mode[c] = "single" /\ null[c])
    \/ \E f \in FencesOf(c) : reg[c][f] = "dropped"

\* The last reference of a shared fence gets its worker to end, and returns.
ReleaseReturns == \A f \in Shared : held[f] = "stops" ~> held[f] = "gone"

\* Those a call waits for have their values: one of them for ANY, or all.
Arrived(c) ==
  IF mode[c] = "any" THEN \E f \in FencesOf(c) : value[f] = 1
                     ELSE \A f \in FencesOf(c) : value[f] = 1

\* A call without an event returns when its fences have their values: "we need
\* to block until the fence value completes" (command.c:1649). One of them is
\* enough for ANY, whose temporary event any fence may signal (device.c:8281).
NullCallReturns ==
  \A c \in Calls :
    null[c] /\ pc[c] # "idle" /\ Arrived(c) ~> pc[c] = "returned" \/ ~Arrived(c)

\* What the caller and the owner of the event rely on, whoever signals: once, not
\* before the fences, and never after a failure.
EventIsRight == TypeOK /\ SignalledAtMostOnce /\ SignalMeansReached /\ FailureIsExclusive

\* Events are signalled, calls without one return, and so does the release of a
\* shared fence.
EveryoneGetsThrough == EventFollowsFences /\ NullCallReturns /\ ReleaseReturns
=============================================================================
