--------------------------- MODULE FenceEventsProofs ---------------------------
(***************************************************************************)
(* Proofs about events that wait for several fences, for any number of     *)
(* calls, native and shared fences: what the payload counts, who frees it, *)
(* and when an event is signalled.                                         *)
(***************************************************************************)
EXTENDS FenceEvents, FiniteSetTheorems, TLAPS

\* The value was found reached for this fence and this event.
Beyond == {"due", "fires", "claims", "drops", "frees", "signals", "done"}

\* A reached fence was seen by every call in progress; nothing fires an event
\* but a fence that was seen.
SeenInv(c) ==
  /\ pc[c] # "idle" => \A f \in Fences : value[f] = 1 => f \in seen[c]
  /\ \A f \in Fences : reg[c][f] \in Beyond => f \in seen[c]

IdleInv(c) ==
  pc[c] = "idle" =>
    /\ \A f \in Fences : reg[c][f] = "no"
    /\ claim[c] = {} /\ freed[c] = 0 /\ signals[c] = 0 /\ ~latch[c] /\ ~failed[c]

\* The thread that has read a shared fence has not listed its event yet, and
\* the fence that failed has its reference until the call gives up.
ListInv(c) ==
  /\ pc[c] = "list" => at[c] \in Shared /\ reg[c][at[c]] = "todo"
  /\ pc[c] = "abandon" => Todo(c) # {}

\* A call that failed does not go on to register.
CallerInv(c) ==
  /\ pc[c] \in {"abandon", "free"} => failed[c]
  /\ failed[c] => pc[c] \in {"abandon", "free", "returned"} /\ Multi(c)

\* What the modes have to do with the steps of vkd3d_waiting_event_signal.
ModeInv(c) ==
  /\ mode[c] = "single" /\ pc[c] # "idle" => \E f \in Fences : FencesOf(c) = {f}
  /\ \A f \in Fences : /\ reg[c][f] \in {"claims", "drops"} => mode[c] = "any"
                       /\ reg[c][f] = "frees" => Multi(c)

CountInv(c) ==
  Multi(c) /\ pc[c] # "idle" =>
    /\ count[c] = Cardinality(Owing(c))
    /\ freed[c] + Cardinality(Freeing(c)) + (IF pc[c] = "free" THEN 1 ELSE 0)
         = (IF Owing(c) = {} THEN 1 ELSE 0)

\* One fence at most claims an event, and it signals the event or has done so.
\* In ALL mode it held the last reference.
ClaimInv(c) ==
  /\ \A f, g \in claim[c] : f = g
  /\ \A f \in claim[c] : reg[c][f] \in {"drops", "frees", "signals", "done"}
  /\ \A f \in Fences : reg[c][f] = "signals" => f \in claim[c]
  /\ signals[c] <= 1
  /\ signals[c] > 0 \/ latch[c] => claim[c] # {}
  /\ signals[c] = 1 => \A f \in claim[c] : reg[c][f] = "done"
  /\ mode[c] = "all" /\ claim[c] # {} => Owing(c) = {}

\* The signal bit is there until the event is claimed or given up.
BitInv(c) ==
  /\ pc[c] # "idle" /\ mode[c] = "any" => (bit[c] <=> claim[c] = {} /\ ~failed[c])
  /\ pc[c] # "idle" /\ mode[c] = "all" => (bit[c] <=> ~failed[c])
  /\ failed[c] => (result[c] = "ok" <=> claim[c] # {})

CallInv(c) ==
  /\ IdleInv(c) /\ ListInv(c) /\ CallerInv(c) /\ ModeInv(c)
  /\ CountInv(c) /\ ClaimInv(c) /\ BitInv(c)

IInv == TypeOK /\ \A c \in Calls : SeenInv(c) /\ CallInv(c)

-----------------------------------------------------------------------------
(* Sets of fences.                                                         *)

LEMMA FenceSets ==
  /\ IsFiniteSet(Fences) /\ Native \subseteq Fences /\ Shared \subseteq Fences
  /\ NoFence \in Fences
  /\ \A S \in SUBSET Fences : IsFiniteSet(S) /\ Cardinality(S) \in Nat
  /\ \A c \in Calls : FencesFor[c] \subseteq (SUBSET Fences) \ {{}}
<1>1. IsFiniteSet(Fences)
  BY FencesFinite DEF Fences
<1>2. \A S \in SUBSET Fences : IsFiniteSet(S) /\ Cardinality(S) \in Nat
  BY <1>1, FS_Subset, FS_CardinalityType
<1>3. NoFence \in Fences
  BY FencesExist DEF NoFence, Fences
<1> QED BY <1>1, <1>2, <1>3, FencesForType DEF Fences

LEMMA CountedOnce ==
  ASSUME NEW S \in SUBSET Fences, NEW f
  PROVE  /\ f \in S => Cardinality(S \ {f}) = Cardinality(S) - 1 /\ Cardinality(S) > 0
         /\ f \in S /\ Cardinality(S) = 1 => S \ {f} = {}
         /\ f \in S /\ Cardinality(S) # 1 => S \ {f} # {}
         /\ f \notin S => Cardinality(S \cup {f}) = Cardinality(S) + 1
<1>1. IsFiniteSet(S) /\ Cardinality(S) \in Nat /\ IsFiniteSet(S \ {f})
      /\ Cardinality(S \ {f}) \in Nat
  BY FenceSets, FS_RemoveElement, FS_CardinalityType
<1>2. f \in S => Cardinality(S \ {f}) = Cardinality(S) - 1
  BY <1>1, FS_RemoveElement
<1>3. f \notin S => Cardinality(S \cup {f}) = Cardinality(S) + 1
  BY <1>1, FS_AddElement
<1>4. Cardinality(S \ {f}) = 0 <=> S \ {f} = {}
  BY <1>1, FS_EmptySet
<1>5. Cardinality(S) = 0 => S = {}
  BY <1>1, FS_EmptySet
<1> QED BY <1>1, <1>2, <1>3, <1>4, <1>5

-----------------------------------------------------------------------------
(* Types.                                                                  *)

LEMMA InitType == Init => TypeOK
BY FenceSets, MaxSignalsType DEF Init, TypeOK, Progress

\* Move and AllDue keep the type of reg.
LEMMA RegType ==
  ASSUME TypeOK
  PROVE  /\ \A c \in Calls, f \in Fences, p \in Progress :
              Move(c, f, p) => reg' \in [Calls -> [Fences -> Progress]]
         /\ \A f \in Fences : AllDue(f) => reg' \in [Calls -> [Fences -> Progress]]
         /\ \A f \in Fences : Reaches(f) => seen' \in [Calls -> SUBSET Fences]
<1>1. reg \in [Calls -> [Fences -> Progress]] /\ seen \in [Calls -> SUBSET Fences]
  BY DEF TypeOK
<1>2. ASSUME NEW c \in Calls, NEW f \in Fences, NEW p \in Progress, Move(c, f, p)
      PROVE  reg' \in [Calls -> [Fences -> Progress]]
  BY <1>1, <1>2 DEF Move
<1>3. ASSUME NEW f \in Fences, AllDue(f) PROVE reg' \in [Calls -> [Fences -> Progress]]
  <2>1. \A c \in Calls :
          [reg[c] EXCEPT ![f] = IF @ = "listed" THEN "due" ELSE @] \in [Fences -> Progress]
    BY <1>1 DEF Progress
  <2> QED BY <1>3, <2>1 DEF AllDue
<1>4. ASSUME NEW f \in Fences, Reaches(f) PROVE seen' \in [Calls -> SUBSET Fences]
  BY <1>1, <1>4 DEF Reaches
<1> QED BY <1>2, <1>3, <1>4

LEMMA FireType ==
  ASSUME IInv, NEW c \in Calls, NEW f \in Fences, Fire(c, f)
  PROVE  TypeOK'
<1>1. TypeOK /\ (reg[c][f] \in Counted /\ Multi(c) => count[c] > 0)
  <2>1. reg[c][f] \in Counted => f \in Owing(c) /\ Owing(c) \in SUBSET Fences
    BY DEF Owing
  <2>2. reg[c][f] # "no" => pc[c] # "idle"
    BY DEF IInv, CallInv, IdleInv
  <2>3. CountInv(c) /\ TypeOK
    BY DEF IInv, CallInv
  <2>4. CASE reg[c][f] \in Counted /\ Multi(c)
    <3>1. count[c] = Cardinality(Owing(c))
      BY <2>2, <2>3, <2>4 DEF CountInv, Counted
    <3>2. \A S \in SUBSET Fences : f \in S => Cardinality(S) > 0
      BY CountedOnce
    <3> HIDE DEF IInv
    <3> QED BY <2>1, <2>3, <2>4, <3>1, <3>2
  <2> QED BY <2>3, <2>4
<1>2. \A p \in Progress : Move(c, f, p) => reg' \in [Calls -> [Fences -> Progress]]
  BY <1>1, RegType
<1>3. After(c, f) \in Progress
  BY DEF After, Progress
<1>4. reg[c][f] = "drops" => Multi(c)
  BY DEF IInv, CallInv, ModeInv, Multi
<1> HIDE DEF IInv
<1>5. CASE FireSingle(c, f)
  BY <1>1, <1>2, <1>5 DEF FireSingle, TypeOK, Progress, fenceVars, callVars
<1>6. CASE FireAll(c, f)
  BY <1>1, <1>2, <1>6 DEF FireAll, TypeOK, Progress, fenceVars, callVars, Multi, Counted
<1>7. CASE FireLoad(c, f)
  BY <1>1, <1>2, <1>7 DEF FireLoad, TypeOK, Progress, fenceVars, callVars, eventVars
<1>8. CASE FireClaim(c, f)
  BY <1>1, <1>2, <1>8 DEF FireClaim, TypeOK, Progress, fenceVars, callVars
<1>9. CASE FireDrop(c, f)
  BY <1>1, <1>2, <1>3, <1>4, <1>9 DEF FireDrop, TypeOK, Progress, fenceVars, callVars, Counted
<1>10. CASE FireFree(c, f)
  BY <1>1, <1>2, <1>3, <1>10 DEF FireFree, TypeOK, fenceVars, callVars
<1>11. CASE FireSignal(c, f)
  <2> HIDE DEF TypeOK
  <2>0. /\ signals \in [Calls -> Nat] /\ latch \in [Calls -> BOOLEAN]
        /\ signals' \in {signals, [signals EXCEPT ![c] = @ + 1]}
        /\ latch' \in {latch, [latch EXCEPT ![c] = TRUE]}
    BY <1>1, <1>11, Zenon DEF FireSignal, TypeOK
  <2>1. signals' \in [Calls -> Nat]
    BY <2>0
  <2>2. latch' \in [Calls -> BOOLEAN]
    BY <2>0, Zenon
  <2>3. reg' \in [Calls -> [Fences -> Progress]]
    BY <1>2, <1>11 DEF FireSignal, Progress
  <2> QED BY <1>1, <1>11, <2>1, <2>2, <2>3 DEF FireSignal, TypeOK, fenceVars, callVars
<1> QED BY <1>5, <1>6, <1>7, <1>8, <1>9, <1>10, <1>11 DEF Fire

LEMMA CallType ==
  ASSUME IInv, NEW c \in Calls, Calling(c) \/ CallNext(c)
  PROVE  TypeOK'
<1>1. TypeOK
  BY DEF IInv
<1>2. \A f \in Fences, p \in Progress : Move(c, f, p) => reg' \in [Calls -> [Fences -> Progress]]
  BY <1>1, RegType
<1> USE FenceSets DEF fenceVars, callVars, eventVars, TypeOK
<1> HIDE DEF IInv
<1>3. CASE Calling(c)
  <2>1. PICK m \in {"single", "all", "any"}, isNull \in BOOLEAN, fs \in FencesFor[c] :
          Call(c, m, isNull, fs)
    BY <1>3 DEF Calling
  <2>2. fs \in SUBSET Fences /\ Cardinality(fs) \in Nat
    OBVIOUS
  <2>3. [f \in Fences |-> IF f \in fs THEN "todo" ELSE "no"] \in [Fences -> Progress]
    BY DEF Progress
  <2>4. null' \in [Calls -> BOOLEAN]
    BY <1>1, <2>1 DEF Call
  <2>5. bit' \in [Calls -> BOOLEAN] /\ mode' \in [Calls -> {"single", "all", "any"}]
    BY <1>1, <2>1 DEF Call
  <2>6. reg' \in [Calls -> [Fences -> Progress]]
    BY <1>1, <2>1, <2>3 DEF Call
  <2>7. count' \in [Calls -> Nat] /\ seen' \in [Calls -> SUBSET Fences]
    BY <1>1, <2>1, <2>2 DEF Call
  <2>8. pc' \in [Calls -> {"idle", "register", "inline", "latch", "list", "abandon", "free",
                           "returned"}]
    BY <1>1, <2>1 DEF Call
  <2> QED BY <1>1, <2>1, <2>4, <2>5, <2>6, <2>7, <2>8 DEF Call
<1>4. ASSUME NEW f \in Fences, RegisterReachedNative(c, f) PROVE TypeOK'
  BY <1>1, <1>2, <1>4 DEF RegisterReachedNative, Progress
<1>5. ASSUME NEW f \in Fences, RegisterNative(c, f) PROVE TypeOK'
  BY <1>1, <1>2, <1>5 DEF RegisterNative, Progress
<1>6. ASSUME NEW f \in Fences, RegisterReachedShared(c, f) PROVE TypeOK'
  BY <1>1, <1>2, <1>6 DEF RegisterReachedShared, Progress
<1>7. ASSUME NEW f \in Fences, ReadShared(c, f) PROVE TypeOK'
  BY <1>1, <1>7 DEF ReadShared
<1>8. ASSUME NEW f \in Fences, WaitShared(c, f) PROVE TypeOK'
  BY <1>1, <1>2, <1>8 DEF WaitShared, Progress
<1>9. ASSUME NEW f \in Fences, RegisterFails(c, f) PROVE TypeOK'
  BY <1>1, <1>9 DEF RegisterFails
<1>10. CASE ListShared(c)
  <2>1. at[c] \in Shared
    BY <1>10 DEF ListShared, IInv, CallInv, ListInv
  <2>2. reg' \in [Calls -> [Fences -> Progress]]
    BY <1>1, <1>2, <1>10 DEF ListShared, Progress
  <2>3. worker' \in [Shared -> {"none", "top", "asleep", "scan", "polls", "exited"}]
    BY <1>1, <1>10, <2>1 DEF ListShared
  <2>4. running' \in [Shared -> BOOLEAN]
    BY <1>1, <1>10, <2>1 DEF ListShared
  <2> QED BY <1>1, <1>10, <2>2, <2>3, <2>4 DEF ListShared
<1>11. CASE Latched(c)
  BY <1>1, <1>11 DEF Latched
<1>12. CASE InlineDone(c)
  BY <1>1, <1>12 DEF InlineDone
<1>13. CASE Abandon(c)
  <2>1. count[c] - Cardinality(Todo(c)) \in Nat
    <3>1. Todo(c) \in SUBSET Owing(c) /\ Owing(c) \in SUBSET Fences
      BY DEF Todo, Owing, Counted
    <3>2. Cardinality(Todo(c)) \in Nat /\ Cardinality(Todo(c)) <= Cardinality(Owing(c))
      BY <3>1, FS_Subset
    <3>3. Multi(c) /\ CountInv(c)
      BY <1>13 DEF Abandon, IInv, CallInv, CallerInv
    <3> QED BY <1>13, <3>1, <3>2, <3>3 DEF Abandon, CountInv
  <2>2. [f \in Fences |-> IF f \in Todo(c) THEN "no" ELSE reg[c][f]] \in [Fences -> Progress]
    BY <1>1 DEF Progress
  <2>3. reg' \in [Calls -> [Fences -> Progress]]
    BY <1>1, <1>13, <2>2 DEF Abandon
  <2>4. count' \in [Calls -> Nat]
    BY <1>1, <1>13, <2>1 DEF Abandon
  <2> QED BY <1>1, <1>13, <2>3, <2>4 DEF Abandon
<1>14. CASE FreeAbandoned(c)
  BY <1>1, <1>14 DEF FreeAbandoned
<1>15. CASE Registered(c)
  BY <1>1, <1>15 DEF Registered
<1> HIDE DEF TypeOK
<1> QED BY <1>3, <1>4, <1>5, <1>6, <1>7, <1>8, <1>9, <1>10, <1>11, <1>12, <1>13, <1>14, <1>15
        DEF CallNext

LEMMA TypeStep ==
  ASSUME IInv, Next
  PROVE  TypeOK'
<1>1. TypeOK
  BY DEF IInv
<1>2. /\ \A f \in Fences : AllDue(f) => reg' \in [Calls -> [Fences -> Progress]]
      /\ \A f \in Fences : Reaches(f) => seen' \in [Calls -> SUBSET Fences]
  BY <1>1, RegType
<1> USE FenceSets DEF fenceVars, callVars, eventVars, TypeOK
<1> HIDE DEF IInv
<1>3. ASSUME NEW c \in Calls, NEW f \in Fences, OwnerFires(c, f) PROVE TypeOK'
  <2>1. reg' \in [Calls -> [Fences -> Progress]]
    BY <1>1, <1>3, RegType DEF OwnerFires, Progress
  <2> QED BY <1>1, <1>3, <2>1 DEF OwnerFires
<1>4. ASSUME NEW f \in Fences, OwnerUnlocks(f) PROVE TypeOK'
  BY <1>1, <1>4 DEF OwnerUnlocks
<1>5. ASSUME NEW f \in Native, NativeNext(f) PROVE TypeOK'
  <2>1. PICK v \in {0, 1} : SignalNative(f, v)
    BY <1>5 DEF NativeNext
  <2>2. reg' \in [Calls -> [Fences -> Progress]] /\ seen' \in [Calls -> SUBSET Fences]
    BY <1>1, <1>2, <2>1 DEF SignalNative
  <2>3. signalled' \in [Native -> 0 .. MaxSignals] /\ value' \in [Fences -> {0, 1}]
    BY <1>1, <2>1, MaxSignalsType DEF SignalNative
  <2> QED BY <1>1, <2>1, <2>2, <2>3 DEF SignalNative
<1>6. ASSUME NEW f \in Shared, SignalShared(f) PROVE TypeOK'
  BY <1>1, <1>2, <1>6 DEF SignalShared
<1>7. ASSUME NEW f \in Shared, WorkerSleeps(f) \/ WorkerWaits(f) \/ WorkerPolled(f) PROVE TypeOK'
  <2>1. CASE WorkerSleeps(f)
    BY <1>1, <2>1 DEF WorkerSleeps
  <2>2. CASE WorkerWaits(f)
    BY <1>1, <2>2 DEF WorkerWaits
  <2>3. CASE WorkerPolled(f)
    BY <1>1, <2>3 DEF WorkerPolled
  <2> QED BY <1>7, <2>1, <2>2, <2>3
<1>8. ASSUME NEW f \in Shared, WorkerScans(f) PROVE TypeOK'
  BY <1>1, <1>2, <1>8 DEF WorkerScans
<1>9. ASSUME NEW f \in Shared, WorkerScanned(f) PROVE TypeOK'
  BY <1>1, <1>9 DEF WorkerScanned
<1>10. ASSUME NEW f \in Shared, ReleaseShared(f) \/ StopWorker(f) \/ JoinWorker(f) PROVE TypeOK'
  <2>1. CASE ReleaseShared(f)
    BY <1>1, <2>1 DEF ReleaseShared
  <2>2. CASE StopWorker(f)
    BY <1>1, <2>2 DEF StopWorker
  <2>3. CASE JoinWorker(f)
    BY <1>1, <2>3 DEF JoinWorker
  <2> QED BY <1>10, <2>1, <2>2, <2>3
<1>11. ASSUME NEW f \in Shared, FreeShared(f) PROVE TypeOK'
  <2>1. \A c \in Calls :
          [reg[c] EXCEPT ![f] = IF @ = "listed" THEN "dropped" ELSE @] \in [Fences -> Progress]
    BY <1>1 DEF Progress
  <2>2. reg' \in [Calls -> [Fences -> Progress]]
    BY <1>11, <2>1 DEF FreeShared
  <2> QED BY <1>1, <1>11, <2>2 DEF FreeShared
<1> HIDE DEF TypeOK
<1> QED BY <1>3, <1>4, <1>5, <1>6, <1>7, <1>8, <1>9, <1>10, <1>11, FireType, CallType
        DEF Next, FenceNext, SharedNext

-----------------------------------------------------------------------------
(* What a step means to a call.                                            *)

\* Fences reach the value, go on to the next event, or are freed.
RegMoves(c) ==
  \A f \in Fences : \/ reg'[c][f] = reg[c][f]
                    \/ reg[c][f] = "listed" /\ reg'[c][f] \in {"due", "dropped"}
                    \/ reg[c][f] = "due" /\ reg'[c][f] = "fires"

\* Somebody else's step.
Untouched(c) ==
  /\ mode'[c] = mode[c] /\ claim'[c] = claim[c] /\ count'[c] = count[c] /\ bit'[c] = bit[c]
  /\ freed'[c] = freed[c] /\ signals'[c] = signals[c] /\ latch'[c] = latch[c]
  /\ failed'[c] = failed[c] /\ result'[c] = result[c] /\ pc'[c] = pc[c] /\ at'[c] = at[c]
  /\ RegMoves(c)

Kept(c) ==
  /\ mode'[c] = mode[c] /\ claim'[c] = claim[c] /\ count'[c] = count[c] /\ bit'[c] = bit[c]
  /\ freed'[c] = freed[c] /\ signals'[c] = signals[c] /\ latch'[c] = latch[c]
  /\ failed'[c] = failed[c] /\ result'[c] = result[c] /\ pc'[c] = pc[c] /\ at'[c] = at[c]
  /\ reg'[c] = reg[c]

LEMMA KeptUntouched ==
  ASSUME NEW c \in Calls, Kept(c)
  PROVE  Untouched(c)
BY DEF Kept, Untouched, RegMoves

LEMMA UnchangedUntouched ==
  ASSUME NEW c \in Calls, UNCHANGED <<callVars, eventVars>>
  PROVE  /\ RegMoves(c) => Untouched(c)
         /\ reg' = reg => Untouched(c)
<1>1. reg' = reg => RegMoves(c)
  BY DEF RegMoves
<1> QED BY <1>1 DEF Untouched, callVars, eventVars

LEMMA OtherFires ==
  ASSUME TypeOK, NEW c \in Calls, NEW d \in Calls \ {c}, NEW f \in Fences, Fire(d, f)
  PROVE  Kept(c)
<1>1. \A p : Move(d, f, p) => reg'[c] = reg[c]
  BY DEF TypeOK, Move
<1> USE DEF callVars, eventVars, TypeOK, Kept
<1>2. CASE FireSingle(d, f)
  BY <1>1, <1>2 DEF FireSingle
<1>3. CASE FireAll(d, f)
  BY <1>1, <1>3 DEF FireAll
<1>4. CASE FireLoad(d, f)
  BY <1>1, <1>4 DEF FireLoad
<1>5. CASE FireClaim(d, f)
  BY <1>1, <1>5 DEF FireClaim
<1>6. CASE FireDrop(d, f)
  BY <1>1, <1>6 DEF FireDrop
<1>7. CASE FireFree(d, f)
  BY <1>1, <1>7 DEF FireFree
<1>8. CASE FireSignal(d, f)
  BY <1>1, <1>8 DEF FireSignal
<1> QED BY <1>2, <1>3, <1>4, <1>5, <1>6, <1>7, <1>8 DEF Fire

LEMMA OtherCalls ==
  ASSUME TypeOK, NEW c \in Calls, NEW d \in Calls \ {c}, Calling(d) \/ CallNext(d)
  PROVE  Kept(c)
<1>1. \A f \in Fences : \A p : Move(d, f, p) => reg'[c] = reg[c]
  BY DEF TypeOK, Move
<1>2. at[d] \in Fences
  BY DEF TypeOK
<1> USE DEF callVars, eventVars, TypeOK, Kept
<1>3. CASE Calling(d)
  <2>1. PICK m, isNull, fs : Call(d, m, isNull, fs)
    BY <1>3 DEF Calling
  <2> QED BY <2>1 DEF Call
<1>4. ASSUME NEW f \in Fences, RegisterReachedNative(d, f) PROVE Kept(c)
  BY <1>1, <1>4 DEF RegisterReachedNative
<1>5. ASSUME NEW f \in Fences, RegisterNative(d, f) PROVE Kept(c)
  BY <1>1, <1>5 DEF RegisterNative
<1>6. ASSUME NEW f \in Fences, RegisterReachedShared(d, f) PROVE Kept(c)
  BY <1>1, <1>6 DEF RegisterReachedShared
<1>7. ASSUME NEW f \in Fences, ReadShared(d, f) PROVE Kept(c)
  BY <1>7 DEF ReadShared
<1>8. ASSUME NEW f \in Fences, WaitShared(d, f) PROVE Kept(c)
  BY <1>1, <1>8 DEF WaitShared
<1>9. ASSUME NEW f \in Fences, RegisterFails(d, f) PROVE Kept(c)
  BY <1>9 DEF RegisterFails
<1>10. CASE ListShared(d)
  BY <1>1, <1>2, <1>10 DEF ListShared
<1>11. CASE Latched(d)
  BY <1>11 DEF Latched
<1>12. CASE InlineDone(d)
  BY <1>12 DEF InlineDone
<1>13. CASE Abandon(d)
  BY <1>13 DEF Abandon
<1>14. CASE FreeAbandoned(d)
  BY <1>14 DEF FreeAbandoned
<1>15. CASE Registered(d)
  BY <1>15 DEF Registered
<1> HIDE DEF TypeOK, Kept
<1> QED BY <1>3, <1>4, <1>5, <1>6, <1>7, <1>8, <1>9, <1>10, <1>11, <1>12, <1>13, <1>14, <1>15
        DEF CallNext

LEMMA FenceMoves ==
  ASSUME TypeOK, NEW c \in Calls, NEW f \in Fences,
         \/ f \in Native /\ NativeNext(f)
         \/ f \in Shared /\ SharedNext(f)
         \/ OwnerUnlocks(f)
         \/ \E d \in Calls : OwnerFires(d, f)
  PROVE  Untouched(c)
<1>1. reg \in [Calls -> [Fences -> Progress]]
  BY DEF TypeOK
<1>2. AllDue(f) => RegMoves(c)
  BY <1>1 DEF AllDue, RegMoves
<1>3. reg' = reg => RegMoves(c)
  BY DEF RegMoves
<1>4. ASSUME f \in Native, NativeNext(f) PROVE Untouched(c)
  <2>1. PICK v : SignalNative(f, v)
    BY <1>4 DEF NativeNext
  <2>2. RegMoves(c) /\ UNCHANGED <<callVars, eventVars>>
    BY <1>2, <1>3, <2>1 DEF SignalNative
  <2> QED BY <2>2, UnchangedUntouched
<1>5. ASSUME f \in Shared, SharedNext(f) PROVE Untouched(c)
  <2>1. CASE FreeShared(f)
    <3>1. RegMoves(c) /\ UNCHANGED <<callVars, eventVars>>
      BY <1>1, <2>1 DEF FreeShared, RegMoves
    <3> QED BY <3>1, UnchangedUntouched
  <2>2. CASE WorkerScans(f)
    <3>1. RegMoves(c) /\ UNCHANGED <<callVars, eventVars>>
      BY <1>2, <2>2 DEF WorkerScans
    <3> QED BY <3>1, UnchangedUntouched
  <2>3. CASE SignalShared(f) \/ WorkerSleeps(f) \/ WorkerWaits(f) \/ WorkerScanned(f)
    BY <2>3, UnchangedUntouched DEF SignalShared, WorkerSleeps, WorkerWaits, WorkerScanned
  <2>4. CASE WorkerPolled(f) \/ ReleaseShared(f) \/ StopWorker(f) \/ JoinWorker(f)
    BY <2>4, UnchangedUntouched DEF WorkerPolled, ReleaseShared, StopWorker, JoinWorker
  <2> QED BY <1>5, <2>1, <2>2, <2>3, <2>4 DEF SharedNext
<1>6. ASSUME OwnerUnlocks(f) PROVE Untouched(c)
  BY <1>6, UnchangedUntouched DEF OwnerUnlocks
<1>7. ASSUME NEW d \in Calls, OwnerFires(d, f) PROVE Untouched(c)
  <2>1. RegMoves(c)
    BY <1>1, <1>7 DEF OwnerFires, Move, RegMoves
  <2> QED BY <1>7, <2>1, UnchangedUntouched DEF OwnerFires
<1> QED BY <1>4, <1>5, <1>6, <1>7

LEMMA StepCases ==
  ASSUME TypeOK, Next, NEW c \in Calls
  PROVE  \/ Untouched(c) \/ Calling(c) \/ CallNext(c)
         \/ \E f \in Fences : Fire(c, f)
<1>1. ASSUME NEW d \in Calls, Calling(d) \/ CallNext(d), d # c PROVE Untouched(c)
  BY <1>1, OtherCalls, KeptUntouched
<1>2. ASSUME NEW d \in Calls, NEW f \in Fences, Fire(d, f), d # c PROVE Untouched(c)
  BY <1>2, OtherFires, KeptUntouched
<1>3. ASSUME NEW f \in Native, NativeNext(f) PROVE Untouched(c)
  BY <1>3, FenceMoves, FenceSets
<1>4. ASSUME NEW f \in Shared, SharedNext(f) PROVE Untouched(c)
  BY <1>4, FenceMoves, FenceSets
<1>5. ASSUME NEW f \in Fences, FenceNext(f), \A d \in Calls : ~Fire(d, f) PROVE Untouched(c)
  BY <1>5, FenceMoves DEF FenceNext
<1> QED BY <1>1, <1>2, <1>3, <1>4, <1>5 DEF Next, FenceNext

-----------------------------------------------------------------------------
(* Steps that move a call on without firing its event.                     *)

Early == {"todo", "listed", "due", "fires", "dropped"}

Advances(c) ==
  /\ mode'[c] = mode[c] /\ claim'[c] = claim[c] /\ count'[c] = count[c] /\ bit'[c] = bit[c]
  /\ freed'[c] = freed[c] /\ signals'[c] = signals[c] /\ (latch'[c] => latch[c])
  /\ failed'[c] = failed[c] /\ result'[c] = result[c]
  /\ pc'[c] = pc[c] \/ {pc[c], pc'[c]} \subseteq {"register", "inline", "latch", "list"}
  /\ \A f \in Fences : reg'[c][f] = reg[c][f] \/ {reg[c][f], reg'[c][f]} \subseteq Early

\* What CallInv says but for ListInv.
PayloadInv(c) ==
  /\ IdleInv(c) /\ CallerInv(c) /\ ModeInv(c)
  /\ CountInv(c) /\ ClaimInv(c) /\ BitInv(c)

LEMMA AdvancesKeep ==
  ASSUME TypeOK, NEW c \in Calls, PayloadInv(c), Advances(c)
  PROVE  PayloadInv(c)'
<1>1. Owing(c)' = Owing(c) /\ Freeing(c)' = Freeing(c) /\ FencesOf(c)' = FencesOf(c)
  BY DEF Advances, Owing, Freeing, FencesOf, Counted, Early
<1>2. Multi(c)' = Multi(c) /\ (pc'[c] = "free" <=> pc[c] = "free")
      /\ (pc'[c] = "idle" <=> pc[c] = "idle")
  BY DEF Advances, Multi
<1>3. IdleInv(c)'
  BY DEF Advances, PayloadInv, IdleInv, Early
<1>4. CallerInv(c)'
  BY <1>2 DEF Advances, PayloadInv, CallerInv
<1>5. ModeInv(c)'
  <2>1. \A f \in Fences : reg'[c][f] \in {"claims", "drops", "frees"} => reg'[c][f] = reg[c][f]
    BY DEF Advances, Early
  <2> QED BY <1>1, <1>2, <2>1 DEF Advances, PayloadInv, ModeInv
<1>6. CountInv(c)'
  BY <1>1, <1>2 DEF Advances, PayloadInv, CountInv
<1>7. ClaimInv(c)'
  <2>1. \A f \in Fences : /\ reg'[c][f] = "signals" => reg[c][f] = "signals"
                          /\ reg[c][f] \in {"drops", "frees", "signals", "done"} =>
                               reg'[c][f] = reg[c][f]
    BY DEF Advances, Early
  <2>2. ClaimInv(c) /\ Owing(c)' = Owing(c) /\ claim'[c] = claim[c] /\ mode'[c] = mode[c]
        /\ signals'[c] = signals[c] /\ (latch'[c] => latch[c])
    BY <1>1 DEF Advances, PayloadInv
  <2>3. claim[c] \subseteq Fences
    BY DEF TypeOK
  <2>4. /\ \A f, g \in claim'[c] : f = g
        /\ \A f \in claim'[c] : reg'[c][f] \in {"drops", "frees", "signals", "done"}
        /\ \A f \in Fences : reg'[c][f] = "signals" => f \in claim'[c]
        /\ signals'[c] = 1 => \A f \in claim'[c] : reg'[c][f] = "done"
    <3>1. /\ \A f, g \in claim[c] : f = g
          /\ \A f \in claim[c] : reg[c][f] \in {"drops", "frees", "signals", "done"}
          /\ \A f \in Fences : reg[c][f] = "signals" => f \in claim[c]
          /\ signals[c] = 1 => \A f \in claim[c] : reg[c][f] = "done"
      BY <2>2 DEF ClaimInv
    <3>2. claim'[c] = claim[c] /\ signals'[c] = signals[c]
      BY <2>2
    <3> HIDE DEF Advances, PayloadInv
    <3> QED BY <2>1, <2>3, <3>1, <3>2
  <2>5. /\ signals'[c] <= 1
        /\ signals'[c] > 0 \/ latch'[c] => claim'[c] # {}
        /\ mode'[c] = "all" /\ claim'[c] # {} => Owing(c)' = {}
    BY <2>2 DEF ClaimInv
  <2> QED BY <2>4, <2>5 DEF ClaimInv
<1>8. BitInv(c)'
  BY <1>2 DEF Advances, PayloadInv, BitInv
<1> QED BY <1>3, <1>4, <1>5, <1>6, <1>7, <1>8 DEF PayloadInv

LEMMA UntouchedKeep ==
  ASSUME TypeOK, NEW c \in Calls, CallInv(c), Untouched(c)
  PROVE  CallInv(c)'
<1>1. Advances(c)
  BY DEF Untouched, RegMoves, Advances, Early
<1>2. PayloadInv(c)
  BY DEF CallInv, PayloadInv
<1>3. PayloadInv(c)'
  BY <1>1, <1>2, AdvancesKeep
<1>4. ListInv(c)'
  <2>1. ListInv(c) /\ Shared \subseteq Fences /\ pc'[c] = pc[c] /\ at'[c] = at[c]
        /\ \A f \in Fences : reg[c][f] = "todo" => reg'[c][f] = "todo"
    BY FenceSets DEF CallInv, Untouched, RegMoves
  <2> QED BY <2>1 DEF ListInv, Todo
<1> QED BY <1>3, <1>4 DEF CallInv, PayloadInv

-----------------------------------------------------------------------------
(* What Move does to the sets of fences.                                   *)

LEMMA MoveSets ==
  ASSUME TypeOK, NEW c \in Calls, NEW f \in Fences, NEW p, Move(c, f, p)
  PROVE  /\ reg'[c][f] = p /\ \A g \in Fences \ {f} : reg'[c][g] = reg[c][g]
         /\ Owing(c)' = IF p \in Counted THEN Owing(c) \cup {f} ELSE Owing(c) \ {f}
         /\ Freeing(c)' = IF p = "frees" THEN Freeing(c) \cup {f} ELSE Freeing(c) \ {f}
         /\ FencesOf(c)' = IF p # "no" THEN FencesOf(c) \cup {f} ELSE FencesOf(c) \ {f}
<1>1. reg'[c][f] = p /\ \A g \in Fences \ {f} : reg'[c][g] = reg[c][g]
  BY DEF TypeOK, Move
<1> QED BY <1>1 DEF Owing, Freeing, FencesOf

-----------------------------------------------------------------------------
(* The calling thread registers.                                           *)

Registers(c, f) ==
  \/ RegisterReachedNative(c, f) \/ RegisterNative(c, f) \/ RegisterReachedShared(c, f)
  \/ ReadShared(c, f) \/ WaitShared(c, f)

LEMMA RegistersKeep ==
  ASSUME TypeOK, NEW c \in Calls, CallInv(c),
         (\E f \in Fences : Registers(c, f)) \/ ListShared(c) \/ Latched(c) \/ InlineDone(c)
  PROVE  CallInv(c)'
<1>1. PayloadInv(c)
  BY DEF CallInv, PayloadInv
<1>2. \A f \in Fences : \A p : Move(c, f, p) =>
        reg'[c][f] = p /\ \A g \in Fences \ {f} : reg'[c][g] = reg[c][g]
  BY MoveSets
<1>3. at[c] \in Fences /\ pc \in [Calls -> {"idle", "register", "inline", "latch", "list", "abandon",
                                            "free", "returned"}]
      /\ latch \in [Calls -> BOOLEAN] /\ at \in [Calls -> Fences]
  BY DEF TypeOK
<1> USE DEF callVars, eventVars, Early
<1>4. ASSUME NEW f \in Fences, RegisterReachedNative(c, f) PROVE Advances(c) /\ ListInv(c)'
  BY <1>2, <1>3, <1>4 DEF RegisterReachedNative, Advances, ListInv
<1>5. ASSUME NEW f \in Fences, RegisterNative(c, f) PROVE Advances(c) /\ ListInv(c)'
  <2>1. latch'[c] => latch[c]
    BY <1>3, <1>5 DEF RegisterNative
  <2>2. pc[c] = "register" /\ pc'[c] \in {"register", "latch"}
    BY <1>3, <1>5 DEF RegisterNative
  <2>3. \A g \in Fences : reg'[c][g] = reg[c][g] \/ {reg[c][g], reg'[c][g]} \subseteq Early
    BY <1>2, <1>5 DEF RegisterNative
  <2> QED BY <1>5, <2>1, <2>2, <2>3 DEF RegisterNative, Advances, ListInv
<1>6. ASSUME NEW f \in Fences, RegisterReachedShared(c, f) PROVE Advances(c) /\ ListInv(c)'
  BY <1>2, <1>3, <1>6 DEF RegisterReachedShared, Advances, ListInv
<1>7. ASSUME NEW f \in Fences, ReadShared(c, f) PROVE Advances(c) /\ ListInv(c)'
  BY <1>3, <1>7 DEF ReadShared, Advances, ListInv
<1>8. ASSUME NEW f \in Fences, WaitShared(c, f) PROVE Advances(c) /\ ListInv(c)'
  BY <1>2, <1>3, <1>8 DEF WaitShared, Advances, ListInv
<1>9. CASE ListShared(c)
  <2>1. reg[c][at[c]] = "todo"
    BY <1>9 DEF ListShared, CallInv, ListInv
  <2>2. Advances(c) /\ ListInv(c)'
    BY <1>2, <1>3, <1>9, <2>1 DEF ListShared, Advances, ListInv
  <2> QED BY <1>1, <2>2, AdvancesKeep DEF CallInv, PayloadInv
<1>10. CASE Latched(c)
  <2>1. Advances(c) /\ ListInv(c)'
    BY <1>3, <1>10 DEF Latched, Advances, ListInv
  <2> QED BY <1>1, <2>1, AdvancesKeep DEF CallInv, PayloadInv
<1>11. CASE InlineDone(c)
  <2>1. Advances(c) /\ ListInv(c)'
    BY <1>3, <1>11 DEF InlineDone, Advances, ListInv
  <2> QED BY <1>1, <2>1, AdvancesKeep DEF CallInv, PayloadInv
<1>12. ASSUME NEW f \in Fences, Registers(c, f) PROVE CallInv(c)'
  <2>1. Advances(c) /\ ListInv(c)'
    BY <1>4, <1>5, <1>6, <1>7, <1>8, <1>12 DEF Registers
  <2> QED BY <1>1, <2>1, AdvancesKeep DEF CallInv, PayloadInv
<1> QED BY <1>9, <1>10, <1>11, <1>12

-----------------------------------------------------------------------------
(* An event fires.                                                         *)

\* What no step of Fire changes.
Firm(c) ==
  /\ mode'[c] = mode[c] /\ pc'[c] = pc[c] /\ failed'[c] = failed[c]
  /\ result'[c] = result[c] /\ at'[c] = at[c]

\* From p to q, with the reference of the payload kept, given back (the last one
\* makes the fence free the payload), or none left.
Keeps(c, f) ==
  /\ Owing(c)' = Owing(c) /\ Freeing(c)' = Freeing(c)
  /\ count'[c] = count[c] /\ freed'[c] = freed[c]

Drops(c, f) ==
  /\ f \in Owing(c) /\ Owing(c)' = Owing(c) \ {f}
  /\ count'[c] = count[c] - 1 /\ freed'[c] = freed[c]
  /\ Freeing(c)' = IF count[c] = 1 THEN Freeing(c) \cup {f} ELSE Freeing(c)

Frees(c, f) ==
  /\ f \in Freeing(c) /\ Owing(c)' = Owing(c) /\ Freeing(c)' = Freeing(c) \ {f}
  /\ count'[c] = count[c] /\ freed'[c] = freed[c] + 1

LEMMA FireCount ==
  ASSUME TypeOK, NEW c \in Calls, NEW f \in Fences, CountInv(c), CallerInv(c), Firm(c),
         Keeps(c, f) \/ Drops(c, f) \/ Frees(c, f)
  PROVE  CountInv(c)'
<1> SUFFICES ASSUME Multi(c), pc[c] # "idle" PROVE CountInv(c)'
  BY DEF Firm, CountInv, Multi
<1>1. /\ Multi(c)' = Multi(c) /\ pc'[c] = pc[c]
      /\ count[c] = Cardinality(Owing(c))
      /\ freed[c] + Cardinality(Freeing(c)) + (IF pc[c] = "free" THEN 1 ELSE 0)
           = (IF Owing(c) = {} THEN 1 ELSE 0)
  BY DEF Firm, CountInv, Multi
<1>2. /\ Owing(c) \in SUBSET Fences /\ Freeing(c) \in SUBSET Fences
      /\ freed[c] \in Nat /\ count[c] \in Nat
  BY DEF Owing, Freeing, TypeOK
<1>3. Cardinality(Freeing(c)) \in Nat /\ Cardinality(Owing(c)) \in Nat
  BY <1>2, FenceSets
<1>4. CASE Keeps(c, f)
  BY <1>1, <1>4 DEF Keeps, CountInv
<1>5. CASE Drops(c, f)
  <2>1. /\ freed[c] = 0 /\ Cardinality(Freeing(c)) = 0 /\ pc[c] # "free"
    BY <1>1, <1>2, <1>3, <1>5 DEF Drops
  <2>2. Freeing(c) = {}
    BY <1>2, <2>1, FenceSets, FS_EmptySet
  <2>3. Cardinality({f}) = 1 /\ Cardinality({}) = 0
    BY FS_Singleton, FS_EmptySet
  <2>4. Cardinality(Owing(c) \ {f}) = Cardinality(Owing(c)) - 1
        /\ (Cardinality(Owing(c)) = 1 <=> Owing(c) \ {f} = {})
    BY <1>2, <1>5, CountedOnce DEF Drops
  <2>5. CASE count[c] = 1
    <3>1. Freeing(c)' = {f} /\ Owing(c)' = {} /\ count'[c] = Cardinality(Owing(c)')
      BY <1>1, <1>5, <2>2, <2>4, <2>5 DEF Drops
    <3> QED BY <1>1, <1>5, <2>1, <2>3, <3>1 DEF Drops, CountInv
  <2>6. CASE count[c] # 1
    <3>1. Freeing(c)' = {} /\ Owing(c)' # {} /\ count'[c] = Cardinality(Owing(c)')
      BY <1>1, <1>5, <2>2, <2>4, <2>6 DEF Drops
    <3> QED BY <1>1, <1>5, <2>1, <2>3, <3>1 DEF Drops, CountInv
  <2> QED BY <2>5, <2>6
<1>6. CASE Frees(c, f)
  <2>1. Cardinality(Freeing(c)') = Cardinality(Freeing(c)) - 1
    BY <1>2, <1>6, CountedOnce DEF Frees
  <2> QED BY <1>1, <1>2, <1>3, <1>6, <2>1 DEF Frees, CountInv
<1> QED BY <1>4, <1>5, <1>6

LEMMA FireFirm ==
  ASSUME TypeOK, NEW c \in Calls, NEW f \in Fences, Fire(c, f), ModeInv(c)
  PROVE  /\ Firm(c) /\ \E p \in Progress \ Early : Move(c, f, p)
         /\ reg[c][f] \in {"fires", "claims", "drops", "frees", "signals"}
         /\ Multi(c) => Keeps(c, f) \/ Drops(c, f) \/ Frees(c, f)
<1>1. ASSUME NEW p, Move(c, f, p)
      PROVE /\ Owing(c)' = IF p \in Counted THEN Owing(c) \cup {f} ELSE Owing(c) \ {f}
            /\ Freeing(c)' = IF p = "frees" THEN Freeing(c) \cup {f} ELSE Freeing(c) \ {f}
  BY <1>1, MoveSets
<1>2. /\ f \in Owing(c) <=> reg[c][f] \in Counted
      /\ f \in Freeing(c) <=> reg[c][f] = "frees"
  BY DEF Owing, Freeing
<1>3. After(c, f) \in {"signals", "done"}
  BY DEF After
<1> USE DEF Firm, callVars, eventVars, Progress, Early
<1>4. CASE FireSingle(c, f)
  BY <1>4 DEF FireSingle, Multi
<1>5. CASE FireAll(c, f)
  <2>1. PICK p \in {"frees", "done"} : Move(c, f, p) /\ (p = "frees" <=> count[c] = 1)
    BY <1>5 DEF FireAll
  <2>2. count'[c] = count[c] - 1 /\ freed'[c] = freed[c] /\ reg[c][f] = "fires"
    BY <1>5 DEF FireAll, TypeOK
  <2>3. Drops(c, f)
    BY <1>1, <1>2, <2>1, <2>2 DEF Drops, Counted
  <2> QED BY <1>5, <2>1, <2>3 DEF FireAll
<1>6. CASE FireLoad(c, f)
  <2>1. Keeps(c, f)
    BY <1>1, <1>2, <1>6 DEF FireLoad, Keeps, Counted
  <2> QED BY <1>6, <2>1 DEF FireLoad
<1>7. CASE FireClaim(c, f)
  <2>1. Keeps(c, f)
    BY <1>1, <1>2, <1>7 DEF FireClaim, Keeps, Counted
  <2> QED BY <1>7, <2>1 DEF FireClaim
<1>8. CASE FireDrop(c, f)
  <2>1. PICK p \in {"frees", "signals", "done"} :
          Move(c, f, p) /\ (p = "frees" <=> count[c] = 1)
    BY <1>3, <1>8 DEF FireDrop
  <2>2. count'[c] = count[c] - 1 /\ freed'[c] = freed[c] /\ reg[c][f] = "drops"
    BY <1>8 DEF FireDrop, TypeOK
  <2>3. /\ Owing(c)' = Owing(c) \ {f} /\ f \in Owing(c)
        /\ Freeing(c)' = IF count[c] = 1 THEN Freeing(c) \cup {f} ELSE Freeing(c)
    BY <1>1, <1>2, <2>1, <2>2 DEF Counted
  <2>4. Drops(c, f)
    BY <2>2, <2>3 DEF Drops
  <2>5. Firm(c)
    BY <1>8 DEF FireDrop
  <2> QED BY <2>1, <2>2, <2>4, <2>5
<1>9. CASE FireFree(c, f)
  <2>1. PICK p \in {"signals", "done"} : Move(c, f, p)
    BY <1>3, <1>9 DEF FireFree
  <2>2. count'[c] = count[c] /\ freed'[c] = freed[c] + 1 /\ reg[c][f] = "frees"
    BY <1>9 DEF FireFree, TypeOK
  <2>3. /\ Owing(c)' = Owing(c) /\ f \in Freeing(c)
        /\ Freeing(c)' = Freeing(c) \ {f}
    BY <1>1, <1>2, <2>1, <2>2 DEF Counted
  <2>4. Frees(c, f)
    BY <2>2, <2>3 DEF Frees
  <2>5. Firm(c)
    BY <1>9 DEF FireFree
  <2> QED BY <2>1, <2>2, <2>4, <2>5
<1>10. CASE FireSignal(c, f)
  <2>1. Keeps(c, f)
    BY <1>1, <1>2, <1>10 DEF FireSignal, Keeps, Counted
  <2> QED BY <1>10, <2>1 DEF FireSignal
<1> QED BY <1>4, <1>5, <1>6, <1>7, <1>8, <1>9, <1>10 DEF Fire

LEMMA FireClaims ==
  ASSUME TypeOK, NEW c \in Calls, NEW f \in Fences, Fire(c, f), CallInv(c)
  PROVE  ClaimInv(c)' /\ BitInv(c)'
<1>1. /\ reg[c] \in [Fences -> Progress] /\ claim \in [Calls -> SUBSET Fences]
      /\ claim[c] \in SUBSET Fences
      /\ signals \in [Calls -> Nat] /\ latch \in [Calls -> BOOLEAN]
      /\ count \in [Calls -> Nat] /\ bit \in [Calls -> BOOLEAN]
  BY DEF TypeOK
<1>2. IdleInv(c) /\ ModeInv(c) /\ CountInv(c) /\ ClaimInv(c) /\ BitInv(c)
  BY DEF CallInv
<1>3. Firm(c)
  BY <1>2, FireFirm
<1>4. ASSUME NEW p, Move(c, f, p)
      PROVE  /\ reg'[c][f] = p /\ \A g \in Fences \ {f} : reg'[c][g] = reg[c][g]
             /\ p \notin Counted => Owing(c)' = Owing(c) \ {f}
  BY <1>4, MoveSets
<1>5. pc[c] # "idle" /\ (reg[c][f] \in Counted => f \in Owing(c))
  <2>1. reg[c][f] # "no"
    BY <1>2, FireFirm
  <2> QED BY <1>2, <2>1 DEF IdleInv, Owing
<1>6. CASE FireSingle(c, f)
  <2>1. claim[c] = {}
    BY <1>1, <1>2, <1>5, <1>6 DEF FireSingle, ModeInv, ClaimInv, FencesOf
  <2>2. claim'[c] = {f} /\ reg'[c][f] = "signals" /\ signals'[c] = signals[c] /\ latch'[c] = latch[c]
    BY <1>1, <1>4, <1>6, <2>1 DEF FireSingle
  <2>3. \A g \in Fences \ {f} : reg[c][g] # "signals"
    BY <1>2, <2>1 DEF ClaimInv
  <2>4. ClaimInv(c)'
    BY <1>1, <1>2, <1>4, <1>6, <2>1, <2>2, <2>3 DEF FireSingle, ClaimInv, callVars
  <2>5. BitInv(c)'
    BY <1>2, <1>6, <2>1 DEF FireSingle, BitInv, callVars, CallInv, CallerInv, Multi
  <2> QED BY <2>4, <2>5
<1>7. CASE FireAll(c, f)
  <2>1. claim[c] = {} /\ count[c] = Cardinality(Owing(c)) /\ mode[c] = "all"
    BY <1>2, <1>5, <1>7 DEF FireAll, ClaimInv, CountInv, Multi, Counted
  <2>2. count[c] = 1 => Owing(c) \ {f} = {}
    <3>1. Owing(c) \in SUBSET Fences /\ f \in Owing(c)
      BY <1>5, <1>7 DEF Owing, FireAll, Counted
    <3>2. \A S \in SUBSET Fences : f \in S /\ Cardinality(S) = 1 => S \ {f} = {}
      BY CountedOnce
    <3> QED BY <2>1, <3>1, <3>2
  <2>3. /\ claim'[c] = IF count[c] = 1 /\ bit[c] THEN {f} ELSE {}
        /\ reg'[c][f] = IF count[c] = 1 THEN "frees" ELSE "done"
        /\ signals'[c] = signals[c] /\ latch'[c] = latch[c] /\ bit'[c] = bit[c]
        /\ mode'[c] = mode[c]
        /\ Owing(c)' = Owing(c) \ {f}
    BY <1>1, <1>4, <1>7, <2>1 DEF FireAll, Counted, callVars
  <2>4. signals[c] = 0 /\ ~latch[c] /\ \A g \in Fences : reg[c][g] # "signals"
    BY <1>1, <1>2, <2>1 DEF ClaimInv
  <2>5. \A g \in Fences : reg'[c][g] # "signals"
    BY <1>4, <1>7, <2>3, <2>4 DEF FireAll
  <2>6. ClaimInv(c)'
    BY <1>1, <2>2, <2>3, <2>4, <2>5 DEF ClaimInv
  <2>7. BitInv(c)'
    BY <1>2, <1>3, <1>5, <2>1, <2>3 DEF BitInv, Firm
  <2> QED BY <2>6, <2>7
<1>8. CASE FireLoad(c, f)
  <2>1. /\ claim'[c] = claim[c] /\ reg'[c][f] \in {"claims", "drops"}
        /\ signals'[c] = signals[c] /\ latch'[c] = latch[c] /\ bit'[c] = bit[c]
        /\ mode'[c] = "any" /\ reg[c][f] = "fires"
    BY <1>4, <1>8 DEF FireLoad, eventVars, callVars
  <2>2. f \notin claim[c]
    BY <1>2, <2>1 DEF ClaimInv
  <2>3. ClaimInv(c)'
    BY <1>1, <1>2, <1>4, <1>8, <2>1, <2>2 DEF FireLoad, ClaimInv
  <2>4. BitInv(c)'
    BY <1>2, <1>3, <2>1 DEF BitInv, Firm
  <2> QED BY <2>3, <2>4
<1>9. CASE FireClaim(c, f)
  <2>1. /\ claim'[c] = IF bit[c] THEN claim[c] \cup {f} ELSE claim[c]
        /\ reg'[c][f] = "drops" /\ ~bit'[c]
        /\ signals'[c] = signals[c] /\ latch'[c] = latch[c]
        /\ mode'[c] = mode[c] /\ reg[c][f] = "claims" /\ Move(c, f, "drops")
    BY <1>1, <1>4, <1>9 DEF FireClaim, callVars
  <2>2. mode[c] = "any" /\ f \notin claim[c] /\ (bit[c] <=> claim[c] = {} /\ ~failed[c])
    BY <1>2, <1>5, <2>1 DEF ClaimInv, ModeInv, BitInv
  <2>3. CASE bit[c]
    <3>1. claim[c] = {} /\ signals[c] = 0 /\ ~latch[c] /\ \A g \in Fences : reg[c][g] # "signals"
      BY <1>1, <1>2, <2>2, <2>3 DEF ClaimInv
    <3>2. \A g \in Fences : reg'[c][g] # "signals"
      BY <1>4, <2>1, <3>1
    <3>3. claim'[c] = {f}
      BY <2>1, <2>3, <3>1
    <3>4. ClaimInv(c)'
      BY <1>1, <2>1, <2>2, <3>1, <3>2, <3>3 DEF ClaimInv
    <3>5. BitInv(c)'
      BY <1>3, <2>1, <2>2, <2>3, <3>3 DEF BitInv, Firm
    <3> QED BY <3>4, <3>5
  <2>4. CASE ~bit[c]
    <3>1. ClaimInv(c)'
      BY <1>1, <1>2, <1>4, <2>1, <2>2, <2>4 DEF ClaimInv
    <3>2. BitInv(c)'
      BY <1>2, <1>3, <2>1, <2>2, <2>4 DEF BitInv, Firm
    <3> QED BY <3>1, <3>2
  <2> QED BY <2>3, <2>4
<1>10. CASE FireDrop(c, f) \/ FireFree(c, f)
  <2>1. /\ claim'[c] = claim[c] /\ signals'[c] = signals[c] /\ latch'[c] = latch[c]
        /\ bit'[c] = bit[c] /\ mode'[c] = mode[c] /\ reg[c][f] \in {"drops", "frees"}
    BY <1>10 DEF FireDrop, FireFree, callVars
  <2>2. PICK q \in {"frees", "signals", "done"} :
          Move(c, f, q) /\ (q = "signals" => f \in claim[c]) /\ (q = "done" => f \notin claim[c])
    BY <1>10 DEF FireDrop, FireFree, After
  <2>3. signals[c] = 1 => f \notin claim[c]
    BY <1>2, <2>1 DEF ClaimInv
  <2>4. Owing(c) = {} => Owing(c)' = {}
    BY <1>4, <2>2 DEF Counted
  <2>5. \A g \in Fences : g # f => reg'[c][g] = reg[c][g]
    BY <1>4, <2>2
  <2>6. reg'[c][f] = q
    BY <1>4, <2>2
  <2>7. ClaimInv(c)'
    BY <1>1, <1>2, <2>1, <2>2, <2>3, <2>4, <2>5, <2>6 DEF ClaimInv
  <2>8. BitInv(c)'
    BY <1>2, <1>3, <2>1 DEF BitInv, Firm
  <2> QED BY <2>7, <2>8
<1>11. CASE FireSignal(c, f)
  <2>1. /\ claim'[c] = claim[c] /\ bit'[c] = bit[c] /\ mode'[c] = mode[c]
        /\ reg[c][f] = "signals" /\ Move(c, f, "done")
    BY <1>11 DEF FireSignal, callVars
  <2>2. claim[c] = {f} /\ signals[c] = 0
    <3>1. f \in claim[c] /\ signals[c] # 1
      BY <1>2, <2>1 DEF ClaimInv
    <3> QED BY <1>1, <1>2, <3>1 DEF ClaimInv
  <2>3. signals'[c] \in {0, 1}
    BY <1>1, <1>11, <2>2 DEF FireSignal
  <2>4. \A g \in Fences : g # f => reg'[c][g] = reg[c][g]
    BY <1>4, <2>1
  <2>5. reg'[c][f] = "done" /\ (Owing(c) = {} => Owing(c)' = {})
    BY <1>4, <2>1 DEF Counted
  <2>6. \A g \in Fences : reg'[c][g] # "signals"
    BY <1>2, <2>1, <2>2, <2>4, <2>5 DEF ClaimInv
  <2>7. mode[c] = "all" => Owing(c) = {}
    BY <1>2, <2>2 DEF ClaimInv
  <2>8. ClaimInv(c)'
    BY <2>1, <2>2, <2>3, <2>5, <2>6, <2>7 DEF ClaimInv
  <2>9. BitInv(c)'
    BY <1>2, <1>3, <2>1 DEF BitInv, Firm
  <2> QED BY <2>8, <2>9
<1> QED BY <1>6, <1>7, <1>8, <1>9, <1>10, <1>11 DEF Fire

LEMMA FireKeep ==
  ASSUME TypeOK, NEW c \in Calls, NEW f \in Fences, CallInv(c), Fire(c, f)
  PROVE  CallInv(c)'
<1>1. /\ IdleInv(c) /\ ListInv(c) /\ CallerInv(c) /\ ModeInv(c) /\ CountInv(c)
  BY DEF CallInv
<1>2. Firm(c) /\ reg[c][f] \in {"fires", "claims", "drops", "frees", "signals"}
      /\ (Multi(c) => Keeps(c, f) \/ Drops(c, f) \/ Frees(c, f))
  BY <1>1, FireFirm
<1>3. PICK p \in Progress \ Early : Move(c, f, p)
  BY <1>1, FireFirm
<1>4. /\ reg'[c][f] = p /\ \A g \in Fences \ {f} : reg'[c][g] = reg[c][g]
      /\ FencesOf(c)' = IF p # "no" THEN FencesOf(c) \cup {f} ELSE FencesOf(c) \ {f}
  BY <1>3, MoveSets
<1>5. p # "no"
  <2>1. After(c, f) # "no"
    BY DEF After
  <2> QED BY <1>4, <2>1 DEF Fire, FireSingle, FireAll, FireLoad, FireClaim, FireDrop, FireFree,
                            FireSignal, Move, TypeOK
<1>6. FencesOf(c)' = FencesOf(c)
  BY <1>2, <1>4, <1>5 DEF FencesOf
<1>7. pc[c] # "idle"
  BY <1>1, <1>2 DEF IdleInv
<1>8. IdleInv(c)'
  BY <1>2, <1>7 DEF IdleInv, Firm
<1>9. ListInv(c)'
  BY <1>1, <1>2, <1>4, FenceSets DEF ListInv, Firm, Todo
<1>10. CallerInv(c)'
  BY <1>1, <1>2 DEF CallerInv, Firm, Multi
<1>11. ModeInv(c)'
  <2>1. /\ p \in {"claims", "drops"} => mode[c] = "any"
        /\ p = "frees" => Multi(c)
    <3>1. After(c, f) \in {"signals", "done"}
      BY DEF After
    <3>2. reg'[c][f] \in {"claims", "drops"} => mode[c] = "any"
      BY <1>1, <1>4, <3>1, MoveSets
         DEF Fire, FireSingle, FireAll, FireLoad, FireClaim, FireDrop, FireFree, FireSignal, ModeInv
    <3>3. reg'[c][f] = "frees" => Multi(c)
      BY <1>1, <1>4, <3>1, MoveSets
         DEF Fire, FireSingle, FireAll, FireLoad, FireClaim, FireDrop, FireFree, FireSignal, ModeInv,
             Multi
    <3> QED BY <1>4, <3>2, <3>3
  <2> QED BY <1>1, <1>2, <1>4, <1>6, <2>1 DEF ModeInv, Firm, Multi
<1>12. CountInv(c)'
  <2>1. CASE Multi(c)
    BY <1>1, <1>2, <2>1, FireCount
  <2>2. CASE ~Multi(c)
    BY <1>2, <2>2 DEF Firm, Multi, CountInv
  <2> QED BY <2>1, <2>2
<1>13. ClaimInv(c)' /\ BitInv(c)'
  BY FireClaims
<1> QED BY <1>8, <1>9, <1>10, <1>11, <1>12, <1>13 DEF CallInv

-----------------------------------------------------------------------------
(* The call begins, fails and ends.                                        *)

LEMMA CallingKeeps ==
  ASSUME TypeOK, NEW c \in Calls, CallInv(c), Calling(c)
  PROVE  CallInv(c)'
<1>1. PICK m \in {"single", "all", "any"}, isNull \in BOOLEAN, fs \in FencesFor[c] :
        Call(c, m, isNull, fs)
  BY DEF Calling
<1>2. fs \in SUBSET Fences /\ fs # {} /\ Cardinality(fs) \in Nat /\ IsFiniteSet(fs)
  BY FenceSets
<1>3. pc[c] = "idle" /\ pc'[c] = "register" /\ mode'[c] = m /\ bit'[c] /\ count'[c] = Cardinality(fs)
      /\ (m = "single" <=> Cardinality(fs) = 1)
      /\ UNCHANGED <<claim, freed, signals, latch, failed, result>>
  BY <1>1 DEF Call, TypeOK
<1>4. reg'[c] = [f \in Fences |-> IF f \in fs THEN "todo" ELSE "no"]
  BY <1>1 DEF Call, TypeOK
<1>5. claim[c] = {} /\ freed[c] = 0 /\ signals[c] = 0 /\ ~latch[c] /\ ~failed[c]
  BY <1>3 DEF CallInv, IdleInv
<1>6. Owing(c)' = fs /\ Freeing(c)' = {} /\ FencesOf(c)' = fs
  BY <1>2, <1>4 DEF Owing, Freeing, FencesOf, Counted
<1>7. IdleInv(c)' /\ ListInv(c)' /\ CallerInv(c)'
  BY <1>3, <1>5 DEF IdleInv, ListInv, CallerInv
<1>8. ModeInv(c)'
  <2>1. Cardinality(fs) = 1 => \E f \in Fences : fs = {f}
    BY <1>2, FS_Singleton
  <2> QED BY <1>3, <1>4, <1>6, <2>1 DEF ModeInv
<1>9. CountInv(c)'
  BY <1>2, <1>3, <1>5, <1>6, FS_EmptySet DEF CountInv
<1>10. ClaimInv(c)'
  BY <1>3, <1>4, <1>5 DEF ClaimInv
<1>11. BitInv(c)'
  BY <1>3, <1>5 DEF BitInv
<1> QED BY <1>7, <1>8, <1>9, <1>10, <1>11 DEF CallInv

LEMMA FailsKeeps ==
  ASSUME TypeOK, NEW c \in Calls, CallInv(c), NEW f \in Fences, RegisterFails(c, f)
  PROVE  CallInv(c)'
<1>1. /\ pc[c] \in {"register", "list"} /\ pc'[c] = "abandon" /\ ~bit'[c] /\ failed'[c]
      /\ result'[c] = IF bit[c] THEN "failed" ELSE "ok"
      /\ Multi(c) /\ reg[c][f] = "todo"
      /\ UNCHANGED <<mode, reg, claim, count, freed, signals, latch>>
  BY DEF RegisterFails, TypeOK, fenceVars
<1>2. Owing(c)' = Owing(c) /\ Freeing(c)' = Freeing(c) /\ FencesOf(c)' = FencesOf(c)
      /\ Multi(c)' = Multi(c) /\ f \in Owing(c)
  BY <1>1 DEF Owing, Freeing, FencesOf, Multi, Counted
<1>3. IdleInv(c) /\ CallerInv(c) /\ ModeInv(c) /\ CountInv(c) /\ ClaimInv(c) /\ BitInv(c)
  BY DEF CallInv
<1>4. ~failed[c] /\ (mode[c] = "all" => claim[c] = {})
  BY <1>1, <1>2, <1>3 DEF CallerInv, ClaimInv
<1>5. IdleInv(c)' /\ ListInv(c)' /\ CallerInv(c)'
  BY <1>1, <1>2 DEF IdleInv, ListInv, CallerInv, Todo
<1>6. ModeInv(c)'
  BY <1>1, <1>2, <1>3 DEF ModeInv, Multi
<1>7. CountInv(c)'
  BY <1>1, <1>2, <1>3 DEF CountInv
<1>8. ClaimInv(c)'
  BY <1>1, <1>2, <1>3 DEF ClaimInv
<1>9. BitInv(c)'
  BY <1>1, <1>2, <1>3, <1>4 DEF BitInv, Multi
<1> QED BY <1>5, <1>6, <1>7, <1>8, <1>9 DEF CallInv

LEMMA AbandonKeeps ==
  ASSUME TypeOK, NEW c \in Calls, CallInv(c), Abandon(c)
  PROVE  CallInv(c)'
<1>1. /\ pc[c] = "abandon" /\ count'[c] = count[c] - Cardinality(Todo(c))
      /\ reg'[c] = [f \in Fences |-> IF f \in Todo(c) THEN "no" ELSE reg[c][f]]
      /\ pc'[c] = IF count[c] = Cardinality(Todo(c)) THEN "free" ELSE "returned"
      /\ UNCHANGED <<mode, failed, result, claim, bit, freed, signals, latch>>
  BY DEF Abandon, TypeOK
<1>2. IdleInv(c) /\ CallerInv(c) /\ ModeInv(c) /\ CountInv(c) /\ ClaimInv(c) /\ BitInv(c)
  BY DEF CallInv
<1>3. Owing(c)' = Owing(c) \ Todo(c) /\ Freeing(c)' = Freeing(c) /\ Multi(c)' = Multi(c)
  BY <1>1 DEF Owing, Freeing, Multi, Todo, Counted
<1>4. Todo(c) \in SUBSET Owing(c) /\ Owing(c) \in SUBSET Fences
      /\ Todo(c) \in SUBSET Fences /\ Freeing(c) \in SUBSET Fences
  BY DEF Todo, Owing, Freeing, Counted
<1>5. /\ IsFiniteSet(Owing(c)) /\ IsFiniteSet(Todo(c))
      /\ Cardinality(Owing(c)) \in Nat /\ Cardinality(Todo(c)) \in Nat
      /\ Cardinality(Freeing(c)) \in Nat
  BY <1>4, FenceSets
<1>6. Cardinality(Owing(c) \ Todo(c)) = Cardinality(Owing(c)) - Cardinality(Todo(c))
      /\ (Cardinality(Owing(c)) = Cardinality(Todo(c)) <=> Owing(c) \ Todo(c) = {})
  <2>1. IsFiniteSet(Owing(c) \ Todo(c)) /\ Cardinality(Owing(c) \ Todo(c)) \in Nat
    BY <1>4, FenceSets
  <2>2. (Owing(c) \ Todo(c)) \cup Todo(c) = Owing(c) /\ (Owing(c) \ Todo(c)) \cap Todo(c) = {}
    BY <1>4
  <2>3. Cardinality(Owing(c)) = Cardinality(Owing(c) \ Todo(c)) + Cardinality(Todo(c))
    BY <1>5, <2>1, <2>2, FS_Union, FS_EmptySet
  <2>4. Cardinality(Owing(c) \ Todo(c)) = 0 <=> Owing(c) \ Todo(c) = {}
    BY <2>1, FS_EmptySet
  <2> QED BY <1>5, <2>1, <2>3, <2>4
<1>7. failed[c] /\ Multi(c)
  BY <1>1, <1>2 DEF CallerInv
<1>8. IdleInv(c)' /\ ListInv(c)' /\ CallerInv(c)'
  BY <1>1, <1>3, <1>7 DEF IdleInv, ListInv, CallerInv
<1>9. ModeInv(c)'
  BY <1>1, <1>2, <1>3, <1>7 DEF ModeInv, Multi
<1>10. CountInv(c)'
  <2>1. /\ count[c] = Cardinality(Owing(c))
        /\ freed[c] + Cardinality(Freeing(c)) = (IF Owing(c) = {} THEN 1 ELSE 0)
    BY <1>1, <1>2, <1>5, <1>7 DEF CountInv, TypeOK
  <2>2. count'[c] = Cardinality(Owing(c)') /\ freed'[c] = freed[c] /\ freed[c] \in Nat
    BY <1>1, <1>3, <1>6, <2>1 DEF TypeOK
  <2>3. pc'[c] = "free" <=> Owing(c)' = {}
    BY <1>1, <1>3, <1>6, <2>1
  <2>4. CASE Owing(c) # {}
    BY <1>3, <1>5, <2>1, <2>2, <2>3, <2>4 DEF CountInv
  <2>5. CASE Owing(c) = {}
    BY <1>1, <1>4, <2>5 DEF CallInv, ListInv
  <2> QED BY <2>4, <2>5
<1>11. ClaimInv(c)'
  <2>1. \A f \in Fences : /\ reg'[c][f] = "signals" => reg[c][f] = "signals"
                          /\ reg[c][f] \in {"drops", "frees", "signals", "done"} =>
                               reg'[c][f] = reg[c][f]
    BY <1>1 DEF Todo
  <2>2. claim[c] \in SUBSET Fences
    BY DEF TypeOK
  <2> QED BY <1>1, <1>2, <1>3, <2>1, <2>2 DEF ClaimInv
<1>12. BitInv(c)'
  BY <1>1, <1>2, <1>7 DEF BitInv
<1> QED BY <1>8, <1>9, <1>10, <1>11, <1>12 DEF CallInv

LEMMA EndsKeep ==
  ASSUME TypeOK, NEW c \in Calls, CallInv(c), FreeAbandoned(c) \/ Registered(c)
  PROVE  CallInv(c)'
<1>1. /\ pc[c] \in {"free", "register"} /\ pc'[c] = "returned"
      /\ freed'[c] = IF pc[c] = "free" THEN freed[c] + 1 ELSE freed[c]
      /\ pc[c] = "free" => result'[c] = result[c]
      /\ UNCHANGED <<mode, failed, reg, claim, count, bit, signals, latch>>
  BY DEF FreeAbandoned, Registered, TypeOK, eventVars
<1>2. IdleInv(c) /\ CallerInv(c) /\ ModeInv(c) /\ CountInv(c) /\ ClaimInv(c) /\ BitInv(c)
  BY DEF CallInv
<1>3. Owing(c)' = Owing(c) /\ Freeing(c)' = Freeing(c) /\ FencesOf(c)' = FencesOf(c)
      /\ Multi(c)' = Multi(c)
  BY <1>1 DEF Owing, Freeing, FencesOf, Multi
<1>4. IdleInv(c)' /\ ListInv(c)' /\ CallerInv(c)'
  BY <1>1, <1>2, <1>3 DEF IdleInv, ListInv, CallerInv
<1>5. ModeInv(c)'
  BY <1>1, <1>2, <1>3 DEF ModeInv
<1>6. CountInv(c)'
  <2>1. Freeing(c) \in SUBSET Fences /\ freed[c] \in Nat
    BY DEF Freeing, TypeOK
  <2>2. Cardinality(Freeing(c)) \in Nat
    BY <2>1, FenceSets
  <2> QED BY <1>1, <1>2, <1>3, <2>1, <2>2 DEF CountInv
<1>7. ClaimInv(c)'
  BY <1>1, <1>2, <1>3 DEF ClaimInv
<1>8. BitInv(c)'
  BY <1>1, <1>2 DEF BitInv, CallerInv
<1> QED BY <1>4, <1>5, <1>6, <1>7, <1>8 DEF CallInv

LEMMA CallStep ==
  ASSUME IInv, Next, NEW c \in Calls
  PROVE  CallInv(c)'
<1>1. TypeOK /\ CallInv(c)
  BY DEF IInv
<1>2. CASE Untouched(c)
  BY <1>1, <1>2, UntouchedKeep
<1>3. CASE Calling(c)
  BY <1>1, <1>3, CallingKeeps
<1>4. CASE CallNext(c)
  <2>1. ASSUME NEW f \in Fences, RegisterFails(c, f) PROVE CallInv(c)'
    BY <1>1, <2>1, FailsKeeps
  <2>2. CASE (\E f \in Fences : Registers(c, f)) \/ ListShared(c) \/ Latched(c) \/ InlineDone(c)
    BY <1>1, <2>2, RegistersKeep
  <2>3. CASE Abandon(c)
    BY <1>1, <2>3, AbandonKeeps
  <2>4. CASE FreeAbandoned(c) \/ Registered(c)
    BY <1>1, <2>4, EndsKeep
  <2> QED BY <1>4, <2>1, <2>2, <2>3, <2>4 DEF CallNext, Registers
<1>5. ASSUME NEW f \in Fences, Fire(c, f) PROVE CallInv(c)'
  BY <1>1, <1>5, FireKeep
<1> QED BY <1>1, <1>2, <1>3, <1>4, <1>5, StepCases

-----------------------------------------------------------------------------
(* Reached fences are seen.                                                *)

\* A step that neither lets a fence reach the value nor finds one that has it.
Blind(c) ==
  /\ pc'[c] # "idle" => pc[c] # "idle"
  /\ value' = value /\ seen' = seen
  /\ \A f \in Fences : reg'[c][f] \in Beyond => reg[c][f] \in Beyond

LEMMA BlindSees ==
  ASSUME NEW c \in Calls, SeenInv(c), Blind(c)
  PROVE  SeenInv(c)'
BY DEF SeenInv, Blind

LEMMA FireBlind ==
  ASSUME TypeOK, NEW c \in Calls, NEW d \in Calls, NEW f \in Fences, Fire(d, f), ModeInv(d)
  PROVE  Blind(c)
<1>1. value' = value /\ seen' = seen /\ pc' = pc
  BY DEF Fire, FireSingle, FireAll, FireLoad, FireClaim, FireDrop, FireFree, FireSignal, fenceVars,
         callVars
<1>2. CASE d # c
  BY <1>1, <1>2, OtherFires DEF Kept, Blind
<1>3. CASE d = c
  <2>1. PICK p : Move(c, f, p)
    BY <1>3, FireFirm
  <2>2. reg[c][f] \in Beyond
    BY <1>3, FireFirm DEF Beyond
  <2>3. \A g \in Fences \ {f} : reg'[c][g] = reg[c][g]
    BY <2>1, MoveSets
  <2> QED BY <1>1, <2>2, <2>3 DEF Blind
<1> QED BY <1>2, <1>3

LEMMA CallsSee ==
  ASSUME IInv, NEW c \in Calls, NEW d \in Calls, Calling(d) \/ CallNext(d)
  PROVE  SeenInv(c)'
<1>1. TypeOK /\ SeenInv(c) /\ CallInv(c) /\ CallInv(d)
  BY DEF IInv
<1>2. at[c] \in Fences
  BY <1>1 DEF TypeOK
<1> HIDE DEF IInv
<1>3. CASE d # c
  <2>1. Kept(c)
    BY <1>1, <1>3, OtherCalls
  <2>2. value' = value /\ \A f \in seen[c] : f \in seen'[c]
    BY <1>1, <1>3 DEF TypeOK, Calling, Call, CallNext, RegisterReachedNative, RegisterNative,
       RegisterReachedShared, ReadShared, WaitShared, RegisterFails, ListShared, Latched, InlineDone,
       Abandon, FreeAbandoned, Registered, fenceVars
  <2> QED BY <1>1, <2>1, <2>2 DEF Kept, SeenInv
<1>4. CASE Calling(c)
  <2>1. PICK m, isNull, fs : Call(c, m, isNull, fs)
    BY <1>4 DEF Calling
  <2>2. /\ seen'[c] = {f \in Fences : value[f] = 1} /\ value' = value
        /\ reg'[c] = [f \in Fences |-> IF f \in fs THEN "todo" ELSE "no"]
    BY <1>1, <2>1 DEF Call, TypeOK, fenceVars
  <2> QED BY <2>2 DEF SeenInv, Beyond
<1>5. CASE CallNext(c)
  <2>1. \A f \in Fences : \A p : Move(c, f, p) => \A g \in Fences \ {f} : reg'[c][g] = reg[c][g]
    BY <1>1, MoveSets
  <2>2. \A f \in Fences : \A p : Move(c, f, p) => reg'[c][f] = p
    BY <1>1, MoveSets
  <2>3. ASSUME NEW f \in Fences, RegisterReachedNative(c, f) \/ RegisterReachedShared(c, f)
        PROVE  SeenInv(c)'
    <3>1. pc[c] = "register" /\ value[f] = 1 /\ value' = value /\ seen' = seen
          /\ reg'[c][f] = "fires" /\ \A g \in Fences \ {f} : reg'[c][g] = reg[c][g]
      BY <2>1, <2>2, <2>3 DEF RegisterReachedNative, RegisterReachedShared, fenceVars
    <3> QED BY <1>1, <3>1 DEF SeenInv
  <2>4. ASSUME NEW f \in Fences, RegisterNative(c, f) \/ WaitShared(c, f) PROVE Blind(c)
    <3>1. pc[c] = "register" /\ value' = value /\ seen' = seen /\ reg'[c][f] \in {"listed", "dropped"}
          /\ \A g \in Fences \ {f} : reg'[c][g] = reg[c][g]
      BY <2>1, <2>2, <2>4 DEF RegisterNative, WaitShared, fenceVars
    <3> QED BY <3>1 DEF Blind, Beyond
  <2>5. ASSUME NEW f \in Fences, ReadShared(c, f) \/ RegisterFails(c, f) PROVE Blind(c)
    BY <2>5 DEF ReadShared, RegisterFails, Blind, fenceVars
  <2>6. ASSUME ListShared(c) PROVE Blind(c)
    BY <1>2, <2>1, <2>2, <2>6 DEF ListShared, Blind, Beyond
  <2>7. ASSUME Latched(c) \/ InlineDone(c) \/ FreeAbandoned(c) \/ Registered(c) PROVE Blind(c)
    BY <2>7 DEF Latched, InlineDone, FreeAbandoned, Registered, Blind, fenceVars
  <2>8. ASSUME Abandon(c) PROVE Blind(c)
    <3>1. reg'[c] = [f \in Fences |-> IF f \in Todo(c) THEN "no" ELSE reg[c][f]]
      BY <1>1, <2>8 DEF Abandon, TypeOK
    <3> QED BY <2>8, <3>1 DEF Abandon, Blind, Beyond, fenceVars
  <2> QED BY <1>1, <1>5, <2>3, <2>4, <2>5, <2>6, <2>7, <2>8, BlindSees DEF CallNext
<1> QED BY <1>3, <1>4, <1>5

LEMMA FencesSee ==
  ASSUME IInv, NEW c \in Calls, NEW f \in Fences,
         \/ f \in Native /\ NativeNext(f)
         \/ f \in Shared /\ SharedNext(f)
         \/ OwnerUnlocks(f)
         \/ \E d \in Calls : OwnerFires(d, f)
  PROVE  SeenInv(c)'
<1>1. TypeOK /\ SeenInv(c)
  BY DEF IInv
<1>2. /\ reg \in [Calls -> [Fences -> Progress]] /\ value \in [Fences -> {0, 1}]
      /\ seen \in [Calls -> SUBSET Fences]
  BY <1>1 DEF TypeOK
<1>3. pc' = pc /\ Untouched(c)
  BY <1>1, FenceMoves DEF NativeNext, SignalNative, SharedNext, SignalShared, WorkerSleeps, WorkerScans,
     WorkerWaits, WorkerScanned, WorkerPolled, ReleaseShared, StopWorker, JoinWorker, FreeShared,
     OwnerUnlocks, OwnerFires, callVars
<1>4. \A g \in Fences : reg[c][g] # "no" => pc[c] # "idle"
  BY DEF IInv, CallInv, IdleInv
<1> HIDE DEF IInv
<1>5. ASSUME AllDue(f)
      PROVE  /\ \A g \in Fences \ {f} : reg'[c][g] = reg[c][g]
             /\ reg'[c][f] = IF reg[c][f] = "listed" THEN "due" ELSE reg[c][f]
  BY <1>2, <1>5 DEF AllDue
<1>6. ASSUME Reaches(f)
      PROVE  seen'[c] = IF pc[c] = "idle" THEN seen[c] ELSE seen[c] \cup {f}
  BY <1>6 DEF Reaches
<1>7. ASSUME f \in Native, NativeNext(f) PROVE SeenInv(c)'
  <2>1. PICK v \in {0, 1} : SignalNative(f, v)
    BY <1>7 DEF NativeNext
  <2>2. value'[f] = v /\ \A g \in Fences \ {f} : value'[g] = value[g]
    BY <1>2, <2>1 DEF SignalNative
  <2>3. CASE v = 1
    BY <1>1, <1>3, <1>4, <1>5, <1>6, <2>1, <2>2, <2>3 DEF SignalNative, SeenInv, Beyond
  <2>4. CASE v = 0
    BY <1>1, <1>3, <2>1, <2>2, <2>4 DEF SignalNative, SeenInv
  <2> QED BY <2>3, <2>4
<1>8. ASSUME SignalShared(f) PROVE SeenInv(c)'
  <2>1. /\ \A g \in Fences \ {f} : value'[g] = value[g]
        /\ reg' = reg /\ Reaches(f)
    BY <1>2, <1>8 DEF SignalShared
  <2> QED BY <1>1, <1>3, <1>4, <1>6, <2>1 DEF SeenInv, Beyond
<1>9. ASSUME WorkerScans(f) PROVE SeenInv(c)'
  <2>1. value' = value /\ seen' = seen /\ value[f] = 1 /\ AllDue(f)
    BY <1>9 DEF WorkerScans
  <2> QED BY <1>1, <1>3, <1>4, <1>5, <2>1 DEF SeenInv, Beyond
<1>10. ASSUME FreeShared(f) PROVE SeenInv(c)'
  <2>1. value' = value /\ seen' = seen
        /\ reg'[c] = [reg[c] EXCEPT ![f] = IF @ = "listed" THEN "dropped" ELSE @]
    BY <1>10 DEF FreeShared
  <2>2. \A g \in Fences : reg'[c][g] \in Beyond => reg[c][g] \in Beyond
    BY <1>2, <2>1 DEF Beyond
  <2> QED BY <1>1, <1>3, <2>1, <2>2 DEF SeenInv
<1>11. ASSUME f \in Shared, SharedNext(f), ~SignalShared(f), ~WorkerScans(f), ~FreeShared(f)
       PROVE  SeenInv(c)'
  <2>1. value' = value /\ seen' = seen /\ reg' = reg
    BY <1>11 DEF SharedNext, WorkerSleeps, WorkerWaits, WorkerScanned, WorkerPolled, ReleaseShared,
                 StopWorker, JoinWorker
  <2> QED BY <1>1, <1>3, <2>1 DEF SeenInv
<1>12. ASSUME OwnerUnlocks(f) PROVE SeenInv(c)'
  BY <1>1, <1>3, <1>12 DEF OwnerUnlocks, SeenInv
<1>13. ASSUME NEW d \in Calls, OwnerFires(d, f) PROVE SeenInv(c)'
  <2>1. value' = value /\ seen' = seen
    BY <1>13 DEF OwnerFires, fenceVars
  <2>2. \A g \in Fences : reg'[c][g] \in Beyond => reg[c][g] \in Beyond
    <3>1. reg[d][f] = "due" /\ reg' = [reg EXCEPT ![d][f] = "fires"]
      BY <1>13 DEF OwnerFires, Move
    <3> QED BY <1>2, <3>1 DEF Beyond
  <2> QED BY <1>1, <1>3, <2>1, <2>2 DEF SeenInv
<1> QED BY <1>7, <1>8, <1>9, <1>10, <1>11, <1>12, <1>13

LEMMA SeenStep ==
  ASSUME IInv, Next, NEW c \in Calls
  PROVE  SeenInv(c)'
<1>1. ASSUME NEW d \in Calls, NEW f \in Fences, Fire(d, f) PROVE SeenInv(c)'
  <2>1. TypeOK /\ ModeInv(d) /\ SeenInv(c)
    BY DEF IInv, CallInv
  <2> QED BY <1>1, <2>1, FireBlind, BlindSees
<1>2. ASSUME NEW d \in Calls, Calling(d) \/ CallNext(d) PROVE SeenInv(c)'
  BY <1>2, CallsSee
<1>3. ASSUME NEW f \in Native, NativeNext(f) PROVE SeenInv(c)'
  <2>1. f \in Fences
    BY FenceSets
  <2> QED BY <1>3, <2>1, FencesSee
<1>4. ASSUME NEW f \in Shared, SharedNext(f) PROVE SeenInv(c)'
  <2>1. f \in Fences
    BY FenceSets
  <2> QED BY <1>4, <2>1, FencesSee
<1>5. ASSUME NEW f \in Fences, OwnerUnlocks(f) \/ \E d \in Calls : OwnerFires(d, f)
      PROVE SeenInv(c)'
  BY <1>5, FencesSee
<1> QED BY <1>1, <1>2, <1>3, <1>4, <1>5 DEF Next, FenceNext

-----------------------------------------------------------------------------
LEMMA InitIInv == Init => IInv
<1> SUFFICES ASSUME Init PROVE IInv
  OBVIOUS
<1>1. TypeOK
  BY InitType
<1>2. ASSUME NEW c \in Calls PROVE SeenInv(c) /\ CallInv(c)
  <2>1. /\ pc[c] = "idle" /\ mode[c] = "single" /\ claim[c] = {} /\ freed[c] = 0 /\ signals[c] = 0
        /\ ~latch[c] /\ ~failed[c] /\ \A f \in Fences : reg[c][f] = "no"
    BY <1>2 DEF Init
  <2>2. SeenInv(c)
    BY <2>1 DEF SeenInv, Beyond
  <2>3. IdleInv(c) /\ ListInv(c) /\ CallerInv(c) /\ ModeInv(c) /\ CountInv(c) /\ BitInv(c)
    BY <2>1 DEF IdleInv, ListInv, CallerInv, ModeInv, CountInv, BitInv
  <2>4. ClaimInv(c)
    BY <2>1 DEF ClaimInv
  <2> QED BY <2>2, <2>3, <2>4 DEF CallInv
<1> QED BY <1>1, <1>2 DEF IInv

LEMMA StutterIInv == ASSUME IInv, UNCHANGED vars PROVE IInv'
<1>1. TypeOK'
  BY DEF IInv, TypeOK, vars
<1>2. ASSUME NEW c \in Calls PROVE SeenInv(c)' /\ CallInv(c)'
  <2>1. Owing(c)' = Owing(c) /\ Freeing(c)' = Freeing(c) /\ FencesOf(c)' = FencesOf(c)
        /\ Multi(c)' = Multi(c) /\ Todo(c)' = Todo(c)
    BY DEF vars, Owing, Freeing, FencesOf, Multi, Todo
  <2>2. SeenInv(c) /\ CallInv(c)
    BY DEF IInv
  <2>3. SeenInv(c)'
    BY <2>2 DEF SeenInv, vars
  <2>4. IdleInv(c)' /\ ListInv(c)' /\ CallerInv(c)' /\ ModeInv(c)'
    BY <2>1, <2>2 DEF CallInv, IdleInv, ListInv, CallerInv, ModeInv, vars
  <2>5. CountInv(c)' /\ ClaimInv(c)' /\ BitInv(c)'
    BY <2>1, <2>2 DEF CallInv, CountInv, ClaimInv, BitInv, vars
  <2> QED BY <2>3, <2>4, <2>5 DEF CallInv
<1> QED BY <1>1, <1>2 DEF IInv

LEMMA StepIInv == IInv /\ [Next]_vars => IInv'
<1>1. ASSUME IInv, Next PROVE IInv'
  BY <1>1, TypeStep, CallStep, SeenStep DEF IInv
<1> QED BY <1>1, StutterIInv

LEMMA SpecIInv == Spec => []IInv
BY InitIInv, StepIInv, PTL DEF Spec

-----------------------------------------------------------------------------
(* What the invariant says to the caller and to the owner of the event.    *)

LEMMA IInvEvent == IInv => EventIsRight
<1> SUFFICES ASSUME IInv PROVE EventIsRight
  OBVIOUS
<1>1. TypeOK /\ \A c \in Calls : SeenInv(c) /\ CallInv(c)
  BY DEF IInv
<1>2. SignalledAtMostOnce
  BY <1>1 DEF SignalledAtMostOnce, CallInv, ClaimInv
<1>3. SignalMeansReached
  <2> SUFFICES ASSUME NEW c \in Calls, signals[c] > 0 \/ latch[c]
               PROVE  IF mode[c] = "any" THEN seen[c] \cap FencesOf(c) # {}
                                         ELSE FencesOf(c) \subseteq seen[c]
    BY DEF SignalMeansReached
  <2>1. PICK f \in claim[c] : TRUE
    BY <1>1 DEF CallInv, ClaimInv
  <2>2. f \in Fences /\ reg[c][f] \in {"drops", "frees", "signals", "done"}
    BY <1>1 DEF CallInv, ClaimInv, TypeOK
  <2>3. f \in seen[c] \cap FencesOf(c)
    BY <1>1, <2>2 DEF SeenInv, Beyond, FencesOf
  <2>4. CASE mode[c] = "single"
    BY <1>1, <2>2, <2>3, <2>4 DEF CallInv, IdleInv, ModeInv
  <2>5. CASE mode[c] = "all"
    <3>1. Owing(c) = {}
      BY <1>1, <2>1, <2>5 DEF CallInv, ClaimInv
    <3>2. ASSUME NEW g \in FencesOf(c) PROVE g \in seen[c]
      BY <1>1, <3>1, <3>2 DEF FencesOf, Owing, Counted, SeenInv, Beyond, TypeOK, Progress
    <3> QED BY <2>5, <3>2
  <2> QED BY <1>1, <2>3, <2>4, <2>5 DEF TypeOK
<1>4. FailureIsExclusive
  BY <1>1 DEF FailureIsExclusive, CallInv, BitInv
<1> QED BY <1>1, <1>2, <1>3, <1>4 DEF EventIsRight

\* The reference count of the payload of a call is the number of fences that
\* still hold it, however signals, registrations, failures and the release of
\* shared fences interleave.
THEOREM PayloadCounted == Spec => []PayloadCountsReferences
<1>1. IInv => PayloadCountsReferences
  BY DEF IInv, CallInv, CountInv, PayloadCountsReferences
<1> QED BY <1>1, SpecIInv, PTL

\* The payload is freed by whoever gives the last reference back, once, and not
\* before.
THEOREM PayloadFreed == Spec => []PayloadFreedOnce
<1>1. IInv => PayloadFreedOnce
  BY DEF IInv, CallInv, CountInv, PayloadFreedOnce
<1> QED BY <1>1, SpecIInv, PTL

\* An event is signalled at most once, after its fences had their values, and
\* never after its call has reported failure.
THEOREM EventRight == Spec => []EventIsRight
BY IInvEvent, SpecIInv, PTL
=============================================================================
