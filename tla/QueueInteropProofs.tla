-------------------------- MODULE QueueInteropProofs --------------------------
(***************************************************************************)
(* Proof that who acquires the VkQueue finds everything before submitted,  *)
(* for any number of users, acquisitions and submissions, staggered or     *)
(* not.                                                                    *)
(*                                                                         *)
(* The code compares two counters, current_drain and queue_drain_count.    *)
(* That the comparison means "everything before is submitted" rests on     *)
(* counting: the n-th drain that was queued is the n-th that is carried    *)
(* out.  The invariant counts the drains that are still on their way.      *)
(***************************************************************************)
EXTENDS QueueInterop, FiniteSetTheorems, TLAPS

\* What the submission thread can be given.
Ops == [type : {"execute", "drain"}] \cup [type : {"signal"}, follows : Nat]

\* Calls are numbered as they are appended; the ones still on their way are
\* finished + 1 .. appended, the first of them in the submission thread's hands
\* unless it is at its loop.
Busy == IF worker.pc = "loop" THEN 0 ELSE 1

IsDrain(i) ==
  IF Busy = 1 /\ i = finished + 1 THEN worker.op.type = "drain"
  ELSE submissions[i - finished - Busy].type = "drain"

DrainsOnTheWay(n) == {i \in (finished + 1)..n : IsDrain(i)}

\* What a user, and the submission thread, can be doing.
UserType == [pc : {"idle", "draining", "serialized", "acquired", "released"},
             current_drain : Nat, position : Nat, external : Nat, acquires : Nat]
WorkerType == [pc : {"loop", "popped", "flushed", "staggered", "waiting"},
               op : Ops \cup {None}, value : Nat, awaited : Nat]

Shape ==
  /\ submissions \in Seq(Ops)
  /\ worker \in WorkerType
  /\ user \in [Users -> UserType]
  /\ finished \in Nat /\ appended \in Nat
  /\ drain_count \in Nat /\ queue_drain_count \in Nat
  /\ submission_timeline_count \in Nat /\ last_submission \in Nat
  /\ last_submission <= submission_timeline_count
  /\ sleeping \subseteq Users \cup {Worker}

WorkerHoldsOp ==
  /\ worker.pc # "loop" => worker.op \in Ops
  /\ worker.pc \in {"staggered", "waiting"} => worker.op.type = "execute"
  /\ worker.value <= submission_timeline_count

LocksAreHeld ==
  /\ \A u \in Users : /\ queue_lock = u <=> user[u].pc \in {"serialized", "acquired"}
                      /\ vk_lock = u <=> user[u].pc = "acquired"
                      /\ u \in sleeping => user[u].pc = "draining"
  /\ Worker \in sleeping => worker.pc = "loop"

CallsAreCounted == appended = finished + Len(submissions) + Busy

DrainsAreCounted == drain_count = queue_drain_count + Cardinality(DrainsOnTheWay(appended))

\* The drain that a user waits for is on its way, as the current_drain-th.
UserIsCounted(u) ==
  user[u].pc = "draining" =>
    \A n \in Nat : n = user[u].position /\ n > finished =>
      /\ n <= appended /\ IsDrain(n)
      /\ user[u].current_drain = queue_drain_count + Cardinality(DrainsOnTheWay(n))

UsersAreCounted == \A u \in Users : UserIsCounted(u)

IInv == /\ Shape /\ WorkerHoldsOp /\ LocksAreHeld /\ CallsAreCounted
        /\ DrainsAreCounted /\ UsersAreCounted /\ DrainIsComplete

-----------------------------------------------------------------------------
(* Counting.                                                               *)

LEMMA DrainsAreFinite ==
  ASSUME finished \in Nat, NEW n \in Nat
  PROVE  /\ IsFiniteSet(DrainsOnTheWay(n))
         /\ Cardinality(DrainsOnTheWay(n)) \in Nat
<1>1. IsFiniteSet((finished + 1)..n)
  BY FS_Interval
<1>2. DrainsOnTheWay(n) \subseteq (finished + 1)..n
  BY DEF DrainsOnTheWay
<1>3. IsFiniteSet(DrainsOnTheWay(n))
  BY <1>1, <1>2, FS_Subset
<1> QED BY <1>3, FS_CardinalityType

LEMMA DrainIsOnTheWay ==
  ASSUME finished \in Nat, NEW n \in Nat, n > finished, IsDrain(n)
  PROVE  Cardinality(DrainsOnTheWay(n)) > 0
<1>1. n \in DrainsOnTheWay(n)
  BY DEF DrainsOnTheWay
<1>2. Cardinality(DrainsOnTheWay(n)) # 0
  BY <1>1, DrainsAreFinite, FS_EmptySet
<1> QED BY <1>2, DrainsAreFinite

\* Nothing on the way changes.
LEMMA CountsStay ==
  ASSUME IInv, finished' = finished, appended' = appended,
         \A i \in (finished + 1)..appended : IsDrain(i)' <=> IsDrain(i)
  PROVE  \A n \in Nat : n <= appended => DrainsOnTheWay(n)' = DrainsOnTheWay(n)
BY DEF DrainsOnTheWay, IInv, Shape

\* A call is appended.
LEMMA CountsAfterAppend ==
  ASSUME IInv, finished' = finished, worker' = worker, appended' = appended + 1,
         NEW op \in Ops, submissions' = Append(submissions, op),
         NEW last \in Nat, last = appended + 1
  PROVE  /\ \A i \in (finished + 1)..appended : IsDrain(i)' <=> IsDrain(i)
         /\ IsDrain(last)' <=> op.type = "drain"
         /\ \A n \in Nat : n <= appended => DrainsOnTheWay(n)' = DrainsOnTheWay(n)
         /\ Cardinality(DrainsOnTheWay(last)') =
              Cardinality(DrainsOnTheWay(appended)) + (IF op.type = "drain" THEN 1 ELSE 0)
<1>1. /\ finished \in Nat /\ appended \in Nat /\ submissions \in Seq(Ops)
      /\ appended = finished + Len(submissions) + Busy /\ Busy \in {0, 1}
      /\ Busy' = Busy
  BY DEF IInv, Shape, CallsAreCounted, Busy
<1>2. \A i \in (finished + 1)..appended : IsDrain(i)' <=> IsDrain(i)
  <2> TAKE i \in (finished + 1)..appended
  <2>1. CASE Busy = 1 /\ i = finished + 1
    BY <2>1, <1>1 DEF IsDrain
  <2>2. CASE ~(Busy = 1 /\ i = finished + 1)
    <3>1. i - finished - Busy \in 1..Len(submissions)
      BY <2>2, <1>1
    <3>2. submissions'[i - finished - Busy] = submissions[i - finished - Busy]
      BY <3>1, <1>1
    <3> QED BY <2>2, <3>2, <1>1 DEF IsDrain
  <2> QED BY <2>1, <2>2
<1>3. IsDrain(last)' <=> op.type = "drain"
  <2>1. last - finished - Busy = Len(submissions) + 1
    BY <1>1
  <2>2. submissions'[Len(submissions) + 1] = op
    BY <1>1
  <2>3. ~(Busy = 1 /\ last = finished + 1)
    BY <1>1
  <2> QED BY <1>1, <2>1, <2>2, <2>3 DEF IsDrain
<1>4. \A n \in Nat : n <= appended => DrainsOnTheWay(n)' = DrainsOnTheWay(n)
  BY <1>1, <1>2 DEF DrainsOnTheWay
<1>5. DrainsOnTheWay(last)' =
        DrainsOnTheWay(appended) \cup (IF op.type = "drain" THEN {last} ELSE {})
  BY <1>1, <1>2, <1>3 DEF DrainsOnTheWay
<1>6. last \notin DrainsOnTheWay(appended)
  BY <1>1 DEF DrainsOnTheWay
<1>7. IsFiniteSet(DrainsOnTheWay(appended)) /\ Cardinality(DrainsOnTheWay(appended)) \in Nat
  BY <1>1, DrainsAreFinite
<1>8. Cardinality(DrainsOnTheWay(appended) \cup {last})
        = Cardinality(DrainsOnTheWay(appended)) + 1
  BY <1>6, <1>7, FS_AddElement
<1>9. CASE op.type = "drain"
  BY <1>2, <1>3, <1>4, <1>5, <1>8, <1>9
<1>10. CASE op.type # "drain"
  <2>1. DrainsOnTheWay(last)' = DrainsOnTheWay(appended)
    BY <1>5, <1>10
  <2> QED BY <1>2, <1>3, <1>4, <1>7, <1>10, <2>1
<1> QED BY <1>9, <1>10

\* The submission thread takes the first call.
LEMMA CountsAfterPop ==
  ASSUME IInv, finished' = finished, appended' = appended, worker.pc = "loop",
         submissions # <<>>, submissions' = Tail(submissions),
         worker'.pc # "loop", worker'.op = Head(submissions)
  PROVE  \A i \in (finished + 1)..appended : IsDrain(i)' <=> IsDrain(i)
<1>1. /\ finished \in Nat /\ appended \in Nat /\ submissions \in Seq(Ops)
      /\ appended = finished + Len(submissions) /\ Busy = 0 /\ Busy' = 1
  BY DEF IInv, Shape, CallsAreCounted, Busy
<1> TAKE i \in (finished + 1)..appended
<1>2. CASE i = finished + 1
  <2>1. IsDrain(i)' <=> Head(submissions).type = "drain"
    BY <1>1, <1>2 DEF IsDrain
  <2>2. IsDrain(i) <=> submissions[1].type = "drain"
    BY <1>1, <1>2 DEF IsDrain
  <2> QED BY <2>1, <2>2, <1>1
<1>3. CASE i # finished + 1
  <2>1. i - finished - 1 \in 1..Len(Tail(submissions))
    BY <1>1, <1>3
  <2>2. Tail(submissions)[i - finished - 1] = submissions[i - finished]
    BY <1>1, <2>1
  <2>3. IsDrain(i)' <=> submissions'[i - finished - 1].type = "drain"
    BY <1>1, <1>3 DEF IsDrain
  <2>4. IsDrain(i) <=> submissions[i - finished].type = "drain"
    BY <1>1, <1>3 DEF IsDrain
  <2> QED BY <2>2, <2>3, <2>4
<1> QED BY <1>2, <1>3

\* The submission thread is through with its call.
LEMMA CountsAfterFinish ==
  ASSUME IInv, finished' = finished + 1, appended' = appended, worker.pc # "loop",
         submissions' = submissions, worker'.pc = "loop"
  PROVE  /\ finished < appended
         /\ \A i \in (finished + 2)..appended : IsDrain(i)' <=> IsDrain(i)
         /\ \A n \in (finished + 1)..appended :
              Cardinality(DrainsOnTheWay(n)') =
                Cardinality(DrainsOnTheWay(n)) - (IF worker.op.type = "drain" THEN 1 ELSE 0)
<1>1. /\ finished \in Nat /\ appended \in Nat /\ submissions \in Seq(Ops)
      /\ appended = finished + Len(submissions) + 1 /\ Busy = 1 /\ Busy' = 0
      /\ Len(submissions) \in Nat
  BY DEF IInv, Shape, CallsAreCounted, Busy
<1>2. \A i \in (finished + 2)..appended : IsDrain(i)' <=> IsDrain(i)
  <2> TAKE i \in (finished + 2)..appended
  <2>1. i - (finished + 1) - 0 = i - finished - 1 /\ i # finished + 1
    BY <1>1
  <2>2. IsDrain(i)' <=> submissions[i - finished - 1].type = "drain"
    BY <1>1, <2>1 DEF IsDrain
  <2>3. IsDrain(i) <=> submissions[i - finished - 1].type = "drain"
    BY <1>1, <2>1 DEF IsDrain
  <2> QED BY <2>2, <2>3
<1>3. IsDrain(finished + 1) <=> worker.op.type = "drain"
  BY <1>1 DEF IsDrain
<1>4. ASSUME NEW n \in (finished + 1)..appended
      PROVE  Cardinality(DrainsOnTheWay(n)') =
               Cardinality(DrainsOnTheWay(n)) - (IF worker.op.type = "drain" THEN 1 ELSE 0)
  <2>1. DrainsOnTheWay(n)' = DrainsOnTheWay(n) \ {finished + 1}
    BY <1>1, <1>2, <1>4 DEF DrainsOnTheWay
  <2>2. finished + 1 \in DrainsOnTheWay(n) <=> worker.op.type = "drain"
    BY <1>1, <1>3, <1>4 DEF DrainsOnTheWay
  <2>3. IsFiniteSet(DrainsOnTheWay(n)) /\ Cardinality(DrainsOnTheWay(n)) \in Nat
    BY <1>1, <1>4, DrainsAreFinite
  <2>4. Cardinality(DrainsOnTheWay(n) \ {finished + 1}) =
          IF finished + 1 \in DrainsOnTheWay(n)
          THEN Cardinality(DrainsOnTheWay(n)) - 1 ELSE Cardinality(DrainsOnTheWay(n))
    BY <2>3, FS_RemoveElement
  <2> QED BY <2>1, <2>2, <2>3, <2>4
<1> QED BY <1>1, <1>2, <1>4

-----------------------------------------------------------------------------
(* The counts, after each kind of step.                                    *)

\* User u waits for the same drain as before, if it waits.
SameDrain(u) ==
  user'[u].pc = "draining" =>
    /\ user[u].pc = "draining"
    /\ user'[u].position = user[u].position
    /\ user'[u].current_drain = user[u].current_drain

LEMMA AfterOtherStep ==
  ASSUME IInv, finished' = finished, appended' = appended,
         drain_count' = drain_count, queue_drain_count' = queue_drain_count,
         \A i \in (finished + 1)..appended : IsDrain(i)' <=> IsDrain(i),
         \A u \in Users : SameDrain(u)
  PROVE  DrainsAreCounted' /\ UsersAreCounted'
<1>1. \A n \in Nat : n <= appended => DrainsOnTheWay(n)' = DrainsOnTheWay(n)
  BY CountsStay
<1>2. finished \in Nat /\ appended \in Nat
  BY DEF IInv, Shape
<1>3. DrainsAreCounted'
  <2>1. DrainsOnTheWay(appended)' = DrainsOnTheWay(appended)
    BY <1>2 DEF DrainsOnTheWay
  <2> QED BY <2>1 DEF IInv, DrainsAreCounted
<1>4. ASSUME NEW u \in Users PROVE UserIsCounted(u)'
  <2>1. SUFFICES ASSUME user'[u].pc = "draining",
                        NEW n \in Nat, n = user'[u].position, n > finished
                 PROVE  /\ n <= appended /\ IsDrain(n)'
                        /\ user'[u].current_drain =
                             queue_drain_count + Cardinality(DrainsOnTheWay(n)')
    BY DEF UserIsCounted
  <2>2. user[u].pc = "draining" /\ n = user[u].position
        /\ user'[u].current_drain = user[u].current_drain
    BY <1>4, <2>1 DEF SameDrain
  <2>3. n <= appended /\ IsDrain(n)
        /\ user[u].current_drain = queue_drain_count + Cardinality(DrainsOnTheWay(n))
    BY <1>4, <2>1, <2>2 DEF IInv, UsersAreCounted, UserIsCounted
  <2>4. IsDrain(n)' /\ DrainsOnTheWay(n)' = DrainsOnTheWay(n)
    BY <1>1, <1>2, <2>1, <2>3
  <2> QED BY <2>2, <2>3, <2>4
<1> QED BY <1>3, <1>4 DEF UsersAreCounted

\* User u is the one that queued the drain that was appended.
NewDrain(u) == /\ user'[u].position = appended + 1
               /\ user'[u].current_drain = drain_count + 1

LEMMA AfterAppend ==
  ASSUME IInv, NEW op \in Ops, submissions' = Append(submissions, op),
         appended' = appended + 1, finished' = finished, worker' = worker,
         queue_drain_count' = queue_drain_count,
         drain_count' = drain_count + (IF op.type = "drain" THEN 1 ELSE 0),
         \A u \in Users : SameDrain(u) \/ (op.type = "drain" /\ NewDrain(u))
  PROVE  CallsAreCounted' /\ DrainsAreCounted' /\ UsersAreCounted'
<1>1. /\ finished \in Nat /\ appended \in Nat /\ submissions \in Seq(Ops)
      /\ drain_count \in Nat /\ queue_drain_count \in Nat
      /\ appended = finished + Len(submissions) + Busy /\ Busy \in {0, 1} /\ Busy' = Busy
  BY DEF IInv, Shape, CallsAreCounted, Busy
<1>2. PICK last \in Nat : last = appended + 1
  BY <1>1
<1>3. /\ \A i \in (finished + 1)..appended : IsDrain(i)' <=> IsDrain(i)
      /\ IsDrain(last)' <=> op.type = "drain"
      /\ \A n \in Nat : n <= appended => DrainsOnTheWay(n)' = DrainsOnTheWay(n)
      /\ Cardinality(DrainsOnTheWay(last)') =
           Cardinality(DrainsOnTheWay(appended)) + (IF op.type = "drain" THEN 1 ELSE 0)
  BY <1>2, CountsAfterAppend
<1>4. CallsAreCounted'
  BY <1>1 DEF CallsAreCounted
<1>5. drain_count = queue_drain_count + Cardinality(DrainsOnTheWay(appended))
      /\ Cardinality(DrainsOnTheWay(appended)) \in Nat
  BY <1>1, DrainsAreFinite DEF IInv, DrainsAreCounted
<1>6. drain_count' = queue_drain_count + Cardinality(DrainsOnTheWay(last)')
  BY <1>1, <1>3, <1>5
<1>7. DrainsAreCounted'
  <2>1. DrainsOnTheWay(appended)' = DrainsOnTheWay(last)'
    BY <1>2 DEF DrainsOnTheWay
  <2> QED BY <1>6, <2>1 DEF DrainsAreCounted
<1>8. ASSUME NEW u \in Users PROVE UserIsCounted(u)'
  <2>1. SUFFICES ASSUME user'[u].pc = "draining",
                        NEW n \in Nat, n = user'[u].position, n > finished
                 PROVE  /\ n <= appended + 1 /\ IsDrain(n)'
                        /\ user'[u].current_drain =
                             queue_drain_count + Cardinality(DrainsOnTheWay(n)')
    BY DEF UserIsCounted
  <2>2. CASE SameDrain(u)
    <3>1. user[u].pc = "draining" /\ n = user[u].position
          /\ user'[u].current_drain = user[u].current_drain
      BY <2>1, <2>2 DEF SameDrain
    <3>2. n <= appended /\ IsDrain(n)
          /\ user[u].current_drain = queue_drain_count + Cardinality(DrainsOnTheWay(n))
      BY <1>8, <2>1, <3>1 DEF IInv, UsersAreCounted, UserIsCounted
    <3>3. IsDrain(n)' /\ DrainsOnTheWay(n)' = DrainsOnTheWay(n)
      BY <1>1, <1>3, <2>1, <3>2
    <3> QED BY <1>1, <3>1, <3>2, <3>3
  <2>3. CASE op.type = "drain" /\ NewDrain(u)
    <3>1. n = last /\ user'[u].current_drain = drain_count + 1
      BY <1>2, <2>1, <2>3 DEF NewDrain
    <3>2. drain_count + 1 = queue_drain_count + Cardinality(DrainsOnTheWay(n)')
      BY <1>6, <2>3, <3>1
    <3>3. IsDrain(n)' /\ n <= appended + 1
      BY <1>1, <1>2, <1>3, <2>3, <3>1
    <3> QED BY <3>1, <3>2, <3>3
  <2> QED BY <1>8, <2>2, <2>3
<1> QED BY <1>4, <1>7, <1>8 DEF UsersAreCounted

LEMMA AfterFinish ==
  ASSUME IInv, worker.pc # "loop", worker'.pc = "loop", submissions' = submissions,
         appended' = appended, finished' = finished + 1, drain_count' = drain_count,
         queue_drain_count' =
           queue_drain_count + (IF worker.op.type = "drain" THEN 1 ELSE 0),
         user' = user
  PROVE  CallsAreCounted' /\ DrainsAreCounted' /\ UsersAreCounted'
<1>1. /\ finished \in Nat /\ appended \in Nat /\ submissions \in Seq(Ops)
      /\ drain_count \in Nat /\ queue_drain_count \in Nat
      /\ appended = finished + Len(submissions) + Busy /\ Busy = 1 /\ Busy' = 0
      /\ Len(submissions) \in Nat
  BY DEF IInv, Shape, CallsAreCounted, Busy
<1>2. /\ finished < appended
      /\ \A i \in (finished + 2)..appended : IsDrain(i)' <=> IsDrain(i)
      /\ \A n \in (finished + 1)..appended :
           Cardinality(DrainsOnTheWay(n)') =
             Cardinality(DrainsOnTheWay(n)) - (IF worker.op.type = "drain" THEN 1 ELSE 0)
  BY CountsAfterFinish
<1>3. CallsAreCounted'
  BY <1>1 DEF CallsAreCounted
<1>4. \A n \in Nat : Cardinality(DrainsOnTheWay(n)) \in Nat
  BY <1>1, DrainsAreFinite
<1>5. DrainsAreCounted'
  <2>1. PICK n \in (finished + 1)..appended : n = appended
    BY <1>1, <1>2
  <2>2. DrainsOnTheWay(appended)' = DrainsOnTheWay(n)'
    BY <2>1 DEF DrainsOnTheWay
  <2>3. Cardinality(DrainsOnTheWay(n)') =
          Cardinality(DrainsOnTheWay(appended)) - (IF worker.op.type = "drain" THEN 1 ELSE 0)
    BY <1>2, <2>1
  <2>4. drain_count = queue_drain_count + Cardinality(DrainsOnTheWay(appended))
    BY DEF IInv, DrainsAreCounted
  <2>5. Cardinality(DrainsOnTheWay(appended)) \in Nat
    BY <1>1, <1>4
  <2>6. drain_count' = queue_drain_count' + Cardinality(DrainsOnTheWay(n)')
    BY <1>1, <2>3, <2>4, <2>5
  <2> QED BY <2>2, <2>6 DEF DrainsAreCounted
<1>6. ASSUME NEW u \in Users PROVE UserIsCounted(u)'
  <2>1. SUFFICES ASSUME user[u].pc = "draining",
                        NEW n \in Nat, n = user[u].position, n > finished + 1
                 PROVE  /\ n <= appended /\ IsDrain(n)'
                        /\ user[u].current_drain =
                             queue_drain_count' + Cardinality(DrainsOnTheWay(n)')
    BY DEF UserIsCounted
  <2>2. n <= appended /\ IsDrain(n)
        /\ user[u].current_drain = queue_drain_count + Cardinality(DrainsOnTheWay(n))
    BY <1>1, <1>6, <2>1 DEF IInv, UsersAreCounted, UserIsCounted
  <2>3. n \in (finished + 2)..appended
    BY <1>1, <2>1, <2>2
  <2>4. IsDrain(n)' <=> IsDrain(n)
    BY <1>2, <2>3
  <2>5. Cardinality(DrainsOnTheWay(n)') =
          Cardinality(DrainsOnTheWay(n)) - (IF worker.op.type = "drain" THEN 1 ELSE 0)
    BY <1>1, <1>2, <2>3
  <2>6. Cardinality(DrainsOnTheWay(n)) \in Nat
    BY <1>4
  <2> QED BY <1>1, <2>2, <2>4, <2>5, <2>6
<1> QED BY <1>3, <1>5, <1>6 DEF UsersAreCounted

\* No call is appended, taken or finished.
LEMMA WhileCallsStay ==
  ASSUME IInv, submissions' = submissions, finished' = finished, appended' = appended,
         drain_count' = drain_count, queue_drain_count' = queue_drain_count,
         worker'.op = worker.op, worker'.pc = "loop" <=> worker.pc = "loop",
         \A u \in Users : SameDrain(u)
  PROVE  CallsAreCounted' /\ DrainsAreCounted' /\ UsersAreCounted'
<1>1. Busy' = Busy
  BY DEF Busy
<1>2. \A i \in (finished + 1)..appended : IsDrain(i)' <=> IsDrain(i)
  BY <1>1 DEF IsDrain
<1>3. CallsAreCounted'
  BY <1>1 DEF IInv, CallsAreCounted
<1> QED BY <1>2, <1>3, AfterOtherStep

-----------------------------------------------------------------------------
(* The invariant is inductive.                                             *)

LEMMA InitHolds == Init => IInv
<1> SUFFICES ASSUME Init PROVE IInv
  OBVIOUS
<1> USE InteropAssumption
<1>1. Shape /\ WorkerHoldsOp
  BY DEF Init, Shape, WorkerHoldsOp, Idle, UserType, WorkerType
<1>2. LocksAreHeld /\ CallsAreCounted /\ DrainIsComplete
  BY DEF Init, LocksAreHeld, CallsAreCounted, DrainIsComplete, Busy, Idle
<1>3. DrainsAreCounted
  <2>1. finished = 0 /\ appended = 0 /\ drain_count = 0 /\ queue_drain_count = 0
    BY DEF Init
  <2>2. DrainsOnTheWay(appended) = {}
    BY <2>1 DEF DrainsOnTheWay
  <2> QED BY <2>1, <2>2, FS_EmptySet DEF DrainsAreCounted
<1>4. UsersAreCounted
  BY DEF Init, UsersAreCounted, UserIsCounted
<1> QED BY <1>1, <1>2, <1>3, <1>4 DEF IInv

\* Waking one sleeper wakes nobody else.
LEMMA WakingOne ==
  ASSUME NEW left, CondSignal(left) PROVE left \subseteq sleeping
BY DEF CondSignal

LEMMA ExecuteKeeps == IInv /\ ExecuteCommandLists => IInv'
<1> SUFFICES ASSUME IInv, ExecuteCommandLists PROVE IInv'
  OBVIOUS
<1> DEFINE op == [type |-> "execute"]
<1>1. /\ submissions' = Append(submissions, op) /\ appended' = appended + 1
      /\ CondSignal(sleeping')
      /\ UNCHANGED <<queue_lock, vk_lock, drains, worker, user, timeline, finished>>
  BY DEF ExecuteCommandLists, AddSubmission
<1>2. op \in Ops /\ op.type = "execute"
  BY DEF Ops
<1>3. sleeping' \subseteq sleeping
  BY <1>1, WakingOne
<1> HIDE DEF op
<1>4. Shape' /\ WorkerHoldsOp' /\ LocksAreHeld' /\ DrainIsComplete'
  BY <1>1, <1>2, <1>3
  DEF IInv, Shape, WorkerHoldsOp, LocksAreHeld, DrainIsComplete, drains, timeline
<1>5. \A u \in Users : SameDrain(u)
  BY <1>1 DEF SameDrain
<1>6. drain_count' = drain_count + (IF op.type = "drain" THEN 1 ELSE 0)
  BY <1>1, <1>2 DEF drains, IInv, Shape
<1>7. CallsAreCounted' /\ DrainsAreCounted' /\ UsersAreCounted'
  BY <1>1, <1>2, <1>5, <1>6, AfterAppend DEF drains
<1> QED BY <1>4, <1>7 DEF IInv

LEMMA SignalKeeps ==
  ASSUME IInv, NEW v \in Users, Signal(v) PROVE IInv'
<1> DEFINE op == [type |-> "signal", follows |-> user[v].external]
           next == [user[v] EXCEPT !.pc = "idle"]
<1>1. /\ submissions' = Append(submissions, op) /\ appended' = appended + 1
      /\ CondSignal(sleeping') /\ user[v].pc = "released"
      /\ user' = [user EXCEPT ![v] = next]
      /\ UNCHANGED <<queue_lock, vk_lock, drains, worker, timeline, finished>>
  BY DEF Signal, AddSubmission
<1>2. user[v] \in UserType /\ next \in UserType /\ next.pc = "idle"
  BY DEF IInv, Shape, UserType
<1>3. op \in Ops /\ op.type = "signal"
  BY <1>2 DEF Ops, UserType
<1>4. sleeping' \subseteq sleeping
  BY <1>1, WakingOne
<1> HIDE DEF op, next
<1>5. \A u \in Users : /\ u # v => user'[u] = user[u]
                       /\ user'[v].pc = "idle"
  BY <1>1, <1>2 DEF IInv, Shape
<1>6. user' \in [Users -> UserType] /\ submissions' \in Seq(Ops)
  BY <1>1, <1>2, <1>3 DEF IInv, Shape
<1>7. Shape'
  BY <1>1, <1>4, <1>6 DEF IInv, Shape, drains, timeline
<1>8. WorkerHoldsOp' /\ LocksAreHeld' /\ DrainIsComplete'
  BY <1>1, <1>4, <1>5
  DEF IInv, WorkerHoldsOp, LocksAreHeld, DrainIsComplete, drains, timeline
<1>9. \A u \in Users : SameDrain(u)
  BY <1>5 DEF SameDrain
<1>10. drain_count' = drain_count + (IF op.type = "drain" THEN 1 ELSE 0)
  BY <1>1, <1>3 DEF drains, IInv, Shape
<1>11. CallsAreCounted' /\ DrainsAreCounted' /\ UsersAreCounted'
  BY <1>1, <1>3, <1>9, <1>10, AfterAppend DEF drains
<1> QED BY <1>7, <1>8, <1>11 DEF IInv

LEMMA DrainKeeps ==
  ASSUME IInv, NEW v \in Users, Drain(v) PROVE IInv'
<1> DEFINE op == [type |-> "drain"]
           next == [user[v] EXCEPT !.pc = "draining", !.current_drain = drain_count + 1,
                                   !.position = appended + 1, !.acquires = @ + 1]
<1>1. /\ submissions' = Append(submissions, op) /\ appended' = appended + 1
      /\ user[v].pc = "idle" /\ drain_count' = drain_count + 1
      /\ user' = [user EXCEPT ![v] = next]
      /\ \E left \in SUBSET sleeping : sleeping' = left \cup {v}
      /\ UNCHANGED <<queue_lock, vk_lock, queue_drain_count, worker, timeline, finished>>
  BY DEF Drain, AddSubmission
<1>2. /\ user[v] \in UserType /\ drain_count \in Nat /\ appended \in Nat
  BY DEF IInv, Shape
<1>3. /\ next \in UserType /\ next.pc = "draining"
      /\ next.position = appended + 1 /\ next.current_drain = drain_count + 1
  <2>1. /\ drain_count + 1 \in Nat /\ appended + 1 \in Nat
        /\ user[v].acquires \in Nat /\ user[v].acquires + 1 \in Nat
    BY <1>2 DEF UserType
  <2>2. \A c \in Nat, p \in Nat, a \in Nat :
          [user[v] EXCEPT !.pc = "draining", !.current_drain = c,
                          !.position = p, !.acquires = a] \in UserType
    BY <1>2 DEF UserType
  <2>3. /\ next.pc = "draining" /\ next.position = appended + 1
        /\ next.current_drain = drain_count + 1
    BY <1>2 DEF UserType
  <2> QED BY <2>1, <2>2, <2>3
<1>4. op \in Ops /\ op.type = "drain"
  BY DEF Ops
<1> HIDE DEF op, next
<1>5. /\ \A u \in Users : u # v => user'[u] = user[u]
      /\ user'[v].pc = "draining" /\ NewDrain(v)
  BY <1>1, <1>3 DEF IInv, Shape, NewDrain
<1>6. sleeping' \subseteq sleeping \cup {v}
  BY <1>1
<1>7. user' \in [Users -> UserType] /\ submissions' \in Seq(Ops)
  BY <1>1, <1>3, <1>4 DEF IInv, Shape
<1>8. Shape'
  BY <1>1, <1>6, <1>7 DEF IInv, Shape, timeline
<1>9. WorkerHoldsOp' /\ LocksAreHeld' /\ DrainIsComplete'
  BY <1>1, <1>5, <1>6, InteropAssumption
  DEF IInv, WorkerHoldsOp, LocksAreHeld, DrainIsComplete, timeline
<1>10. \A u \in Users : SameDrain(u) \/ (op.type = "drain" /\ NewDrain(u))
  BY <1>4, <1>5 DEF SameDrain
<1>11. drain_count' = drain_count + (IF op.type = "drain" THEN 1 ELSE 0)
  BY <1>1, <1>4
<1>12. CallsAreCounted' /\ DrainsAreCounted' /\ UsersAreCounted'
  BY <1>1, <1>4, <1>10, <1>11, AfterAppend
<1> QED BY <1>8, <1>9, <1>12 DEF IInv

\* The comparison of the two counters means what the caller takes it to mean.
LEMMA DrainedMeansFinished ==
  ASSUME IInv, NEW v \in Users, user[v].pc = "draining",
         user[v].current_drain <= queue_drain_count
  PROVE  finished >= user[v].position
<1>1. user[v] \in UserType /\ finished \in Nat /\ queue_drain_count \in Nat
  BY DEF IInv, Shape
<1>2. PICK n \in Nat : n = user[v].position
  BY <1>1 DEF UserType
<1>3. SUFFICES ASSUME n > finished PROVE FALSE
  BY <1>1, <1>2
<1>4. IsDrain(n) /\ user[v].current_drain =
                      queue_drain_count + Cardinality(DrainsOnTheWay(n))
  BY <1>2, <1>3 DEF IInv, UsersAreCounted, UserIsCounted
<1>5. Cardinality(DrainsOnTheWay(n)) > 0 /\ Cardinality(DrainsOnTheWay(n)) \in Nat
  BY <1>1, <1>3, <1>4, DrainIsOnTheWay, DrainsAreFinite
<1> QED BY <1>1, <1>4, <1>5

LEMMA DrainsOnKeeps ==
  ASSUME IInv, NEW v \in Users, DrainsOn(v) PROVE IInv'
<1>1. /\ user[v].pc = "draining" /\ sleeping' = sleeping \cup {v}
      /\ UNCHANGED <<queue_lock, vk_lock, submissions, drains, worker, user, timeline,
                     appended, finished>>
  BY DEF DrainsOn
<1>2. Shape' /\ WorkerHoldsOp' /\ LocksAreHeld' /\ DrainIsComplete'
  BY <1>1, InteropAssumption
  DEF IInv, Shape, WorkerHoldsOp, LocksAreHeld, DrainIsComplete, drains, timeline
<1>3. \A u \in Users : SameDrain(u)
  BY <1>1 DEF SameDrain
<1>4. CallsAreCounted' /\ DrainsAreCounted' /\ UsersAreCounted'
  BY <1>1, <1>3, WhileCallsStay DEF drains
<1> QED BY <1>2, <1>4 DEF IInv

LEMMA DrainedKeeps ==
  ASSUME IInv, NEW v \in Users, Drained(v) PROVE IInv'
<1> DEFINE next == [user[v] EXCEPT !.pc = "serialized"]
<1>1. /\ user[v].pc = "draining" /\ queue_lock = None /\ queue_lock' = v
      /\ user[v].current_drain <= queue_drain_count /\ v \notin sleeping
      /\ user' = [user EXCEPT ![v] = next]
      /\ UNCHANGED <<vk_lock, sleeping, submissions, drains, worker, timeline,
                     appended, finished>>
  BY DEF Drained
<1>2. user[v] \in UserType
  BY DEF IInv, Shape
<1>3. next \in UserType /\ next.pc = "serialized" /\ next.position = user[v].position
  BY <1>2 DEF UserType
<1> HIDE DEF next
<1>4. /\ \A u \in Users : u # v => user'[u] = user[u]
      /\ user'[v].pc = "serialized" /\ user'[v].position = user[v].position
      /\ user' \in [Users -> UserType]
  BY <1>1, <1>3 DEF IInv, Shape
<1>5. Shape' /\ WorkerHoldsOp'
  BY <1>1, <1>4 DEF IInv, Shape, WorkerHoldsOp, drains, timeline
<1>6. LocksAreHeld'
  BY <1>1, <1>4, InteropAssumption DEF IInv, LocksAreHeld
<1>7. DrainIsComplete'
  BY <1>1, <1>4, DrainedMeansFinished DEF IInv, DrainIsComplete
<1>8. \A u \in Users : SameDrain(u)
  BY <1>4 DEF SameDrain
<1>9. CallsAreCounted' /\ DrainsAreCounted' /\ UsersAreCounted'
  BY <1>1, <1>8, WhileCallsStay DEF drains
<1> QED BY <1>5, <1>6, <1>7, <1>9 DEF IInv

LEMMA AcquireVkQueueKeeps ==
  ASSUME IInv, NEW v \in Users, AcquireVkQueue(v) PROVE IInv'
<1> DEFINE next == [user[v] EXCEPT !.pc = "acquired"]
<1>1. /\ user[v].pc = "serialized" /\ vk_lock = None /\ vk_lock' = v
      /\ user' = [user EXCEPT ![v] = next]
      /\ UNCHANGED <<queue_lock, sleeping, submissions, drains, worker, timeline,
                     appended, finished>>
  BY DEF AcquireVkQueue
<1>2. user[v] \in UserType
  BY DEF IInv, Shape
<1>3. next \in UserType /\ next.pc = "acquired" /\ next.position = user[v].position
  BY <1>2 DEF UserType
<1> HIDE DEF next
<1>4. /\ \A u \in Users : u # v => user'[u] = user[u]
      /\ user'[v].pc = "acquired" /\ user'[v].position = user[v].position
      /\ user' \in [Users -> UserType]
  BY <1>1, <1>3 DEF IInv, Shape
<1>5. Shape' /\ WorkerHoldsOp'
  BY <1>1, <1>4 DEF IInv, Shape, WorkerHoldsOp, drains, timeline
<1>6. LocksAreHeld' /\ DrainIsComplete'
  BY <1>1, <1>4, InteropAssumption DEF IInv, LocksAreHeld, DrainIsComplete
<1>7. \A u \in Users : SameDrain(u)
  BY <1>4 DEF SameDrain
<1>8. CallsAreCounted' /\ DrainsAreCounted' /\ UsersAreCounted'
  BY <1>1, <1>7, WhileCallsStay DEF drains
<1> QED BY <1>5, <1>6, <1>8 DEF IInv

LEMMA ReleaseVkQueueKeeps ==
  ASSUME IInv, NEW v \in Users, ReleaseVkQueue(v) PROVE IInv'
<1> DEFINE next == [user[v] EXCEPT !.pc = "released",
                                   !.external = submission_timeline_count + 1]
<1>1. /\ user[v].pc = "acquired" /\ vk_lock' = None /\ queue_lock' = None
      /\ submission_timeline_count' = submission_timeline_count + 1
      /\ last_submission' = submission_timeline_count + 1
      /\ user' = [user EXCEPT ![v] = next]
      /\ UNCHANGED <<sleeping, submissions, drains, worker, appended, finished>>
  BY DEF ReleaseVkQueue
<1>2. user[v] \in UserType /\ submission_timeline_count \in Nat
  BY DEF IInv, Shape
<1>3. next \in UserType /\ next.pc = "released"
  <2>1. submission_timeline_count + 1 \in Nat
    BY <1>2
  <2>2. \A m \in Nat : [user[v] EXCEPT !.pc = "released", !.external = m] \in UserType
    BY <1>2 DEF UserType
  <2>3. next.pc = "released"
    BY <1>2 DEF UserType
  <2> QED BY <2>1, <2>2, <2>3
<1> HIDE DEF next
<1>4. /\ \A u \in Users : u # v => user'[u] = user[u]
      /\ user'[v].pc = "released" /\ user' \in [Users -> UserType]
  BY <1>1, <1>3 DEF IInv, Shape
<1>5. Shape'
  BY <1>1, <1>4 DEF IInv, Shape, drains
<1>6. worker.value \in Nat
  BY DEF IInv, Shape, WorkerType
<1>7. WorkerHoldsOp'
  BY <1>1, <1>2, <1>6 DEF IInv, WorkerHoldsOp
<1>8. LocksAreHeld' /\ DrainIsComplete'
  BY <1>1, <1>4, InteropAssumption DEF IInv, LocksAreHeld, DrainIsComplete
<1>9. \A u \in Users : SameDrain(u)
  BY <1>4 DEF SameDrain
<1>10. CallsAreCounted' /\ DrainsAreCounted' /\ UsersAreCounted'
  BY <1>1, <1>9, WhileCallsStay DEF drains
<1> QED BY <1>5, <1>7, <1>8, <1>10 DEF IInv

-----------------------------------------------------------------------------
(* The steps of the submission thread.                                     *)

LEMMA SleepKeeps == IInv /\ Sleep => IInv'
<1> SUFFICES ASSUME IInv, Sleep PROVE IInv'
  OBVIOUS
<1>1. /\ worker.pc = "loop" /\ sleeping' = sleeping \cup {Worker}
      /\ UNCHANGED <<queue_lock, vk_lock, submissions, drains, worker, user, timeline,
                     appended, finished>>
  BY DEF Sleep, AtLoop
<1>2. Shape' /\ WorkerHoldsOp' /\ LocksAreHeld' /\ DrainIsComplete'
  BY <1>1, InteropAssumption
  DEF IInv, Shape, WorkerHoldsOp, LocksAreHeld, DrainIsComplete, drains, timeline
<1>3. \A u \in Users : SameDrain(u)
  BY <1>1 DEF SameDrain
<1>4. CallsAreCounted' /\ DrainsAreCounted' /\ UsersAreCounted'
  BY <1>1, <1>3, WhileCallsStay DEF drains
<1> QED BY <1>2, <1>4 DEF IInv

LEMMA PopKeeps == IInv /\ Pop => IInv'
<1> SUFFICES ASSUME IInv, Pop PROVE IInv'
  OBVIOUS
<1> DEFINE next == [worker EXCEPT !.pc = "popped", !.op = Head(submissions)]
<1>1. /\ worker.pc = "loop" /\ Worker \notin sleeping /\ submissions # <<>>
      /\ worker' = next /\ submissions' = Tail(submissions)
      /\ UNCHANGED <<locks, drains, user, timeline, appended, finished>>
  BY DEF Pop, AtLoop
<1>2. worker \in WorkerType /\ submissions \in Seq(Ops)
  BY DEF IInv, Shape
<1>3. Head(submissions) \in Ops /\ Tail(submissions) \in Seq(Ops)
      /\ Len(submissions) = Len(Tail(submissions)) + 1
  BY <1>1, <1>2
<1>4. next \in WorkerType /\ next.pc = "popped" /\ next.op = Head(submissions)
      /\ next.value = worker.value
  BY <1>2, <1>3 DEF WorkerType
<1> HIDE DEF next
<1>5. Shape'
  BY <1>1, <1>3, <1>4 DEF IInv, Shape, locks, drains, timeline
<1>6. WorkerHoldsOp' /\ LocksAreHeld' /\ DrainIsComplete'
  BY <1>1, <1>3, <1>4
  DEF IInv, WorkerHoldsOp, LocksAreHeld, DrainIsComplete, locks, timeline
<1>7. CallsAreCounted'
  BY <1>1, <1>3, <1>4 DEF IInv, Shape, CallsAreCounted, Busy
<1>8. \A i \in (finished + 1)..appended : IsDrain(i)' <=> IsDrain(i)
  BY <1>1, <1>4, CountsAfterPop
<1>9. \A u \in Users : SameDrain(u)
  BY <1>1 DEF SameDrain
<1>10. DrainsAreCounted' /\ UsersAreCounted'
  BY <1>1, <1>8, <1>9, AfterOtherStep DEF drains
<1> QED BY <1>5, <1>6, <1>7, <1>10 DEF IInv

\* The submission thread goes on with the call that it holds.
LEMMA WorkerGoesOn ==
  ASSUME IInv, worker.pc # "loop", worker'.pc # "loop", worker'.op = worker.op,
         worker' \in WorkerType, worker'.value <= submission_timeline_count',
         worker'.pc \in {"staggered", "waiting"} => worker.op.type = "execute",
         submission_timeline_count' \in Nat,
         submission_timeline_count' >= submission_timeline_count,
         UNCHANGED <<locks, submissions, drains, user, last_submission, appended, finished>>
  PROVE  IInv'
<1>1. Shape'
  BY DEF IInv, Shape, locks, drains
<1>2. WorkerHoldsOp' /\ LocksAreHeld' /\ DrainIsComplete'
  BY DEF IInv, WorkerHoldsOp, LocksAreHeld, DrainIsComplete, locks
<1>3. \A u \in Users : SameDrain(u)
  BY DEF SameDrain
<1>4. CallsAreCounted' /\ DrainsAreCounted' /\ UsersAreCounted'
  BY <1>3, WhileCallsStay DEF drains
<1> QED BY <1>1, <1>2, <1>4 DEF IInv

\* The submission thread is through with the call that it holds.
LEMMA WorkerIsThrough ==
  ASSUME IInv, worker.pc # "loop", worker' = Idle, finished' = finished + 1,
         queue_drain_count' =
           queue_drain_count + (IF worker.op.type = "drain" THEN 1 ELSE 0),
         sleeping' \subseteq sleeping,
         submission_timeline_count' \in Nat, last_submission' \in Nat,
         last_submission' <= submission_timeline_count',
         UNCHANGED <<queue_lock, vk_lock, submissions, drain_count, user, appended>>
  PROVE  IInv'
<1>1. Idle \in WorkerType /\ Idle.pc = "loop" /\ Idle.value = 0
  BY DEF Idle, WorkerType
<1>2. finished' \in Nat /\ queue_drain_count' \in Nat /\ finished' > finished
  BY DEF IInv, Shape
<1>3. Shape'
  BY <1>1, <1>2 DEF IInv, Shape
<1>4. WorkerHoldsOp' /\ LocksAreHeld'
  BY <1>1 DEF IInv, WorkerHoldsOp, LocksAreHeld
<1>5. DrainIsComplete'
  <2> SUFFICES ASSUME NEW u \in Users, user[u].pc \in {"serialized", "acquired"}
               PROVE  finished' >= user[u].position
    BY DEF DrainIsComplete
  <2>1. user[u].position \in Nat /\ finished \in Nat
    BY DEF IInv, Shape, UserType
  <2> QED BY <1>2, <2>1 DEF IInv, DrainIsComplete
<1>6. CallsAreCounted' /\ DrainsAreCounted' /\ UsersAreCounted'
  BY <1>1, AfterFinish
<1> QED BY <1>3, <1>4, <1>5, <1>6 DEF IInv

LEMMA FlushKeeps == IInv /\ Flush => IInv'
<1> SUFFICES ASSUME IInv, Flush PROVE IInv'
  OBVIOUS
<1>1. /\ worker.pc = "popped" /\ worker' = [worker EXCEPT !.pc = "flushed"]
      /\ UNCHANGED <<locks, submissions, drains, user, timeline, appended, finished>>
  BY DEF Flush
<1>2. worker \in WorkerType /\ submission_timeline_count \in Nat
      /\ worker.value <= submission_timeline_count
  BY DEF IInv, Shape, WorkerHoldsOp
<1>3. /\ worker' \in WorkerType /\ worker'.pc = "flushed"
      /\ worker'.op = worker.op /\ worker'.value = worker.value
  BY <1>1, <1>2 DEF WorkerType
<1> QED BY <1>1, <1>2, <1>3, WorkerGoesOn DEF timeline

LEMMA CountDrainKeeps == IInv /\ CountDrain => IInv'
<1> SUFFICES ASSUME IInv, CountDrain PROVE IInv'
  OBVIOUS
<1>1. /\ worker.pc = "flushed" /\ worker.op.type = "drain"
      /\ queue_drain_count' = queue_drain_count + 1 /\ CondSignal(sleeping')
      /\ worker' = Idle /\ finished' = finished + 1
      /\ UNCHANGED <<queue_lock, vk_lock, submissions, drain_count, user, timeline, appended>>
  BY DEF CountDrain
<1>2. sleeping' \subseteq sleeping
  BY <1>1, WakingOne
<1>3. /\ submission_timeline_count \in Nat /\ last_submission \in Nat
      /\ last_submission <= submission_timeline_count
  BY DEF IInv, Shape
<1> QED BY <1>1, <1>2, <1>3, WorkerIsThrough DEF timeline

LEMMA ScheduleSignalKeeps == IInv /\ ScheduleSignal => IInv'
<1> SUFFICES ASSUME IInv, ScheduleSignal PROVE IInv'
  OBVIOUS
<1>1. /\ worker.pc = "flushed" /\ worker.op.type = "signal"
      /\ worker' = Idle /\ finished' = finished + 1
      /\ UNCHANGED <<locks, submissions, drains, user, timeline, appended>>
  BY DEF ScheduleSignal
<1>2. /\ submission_timeline_count \in Nat /\ last_submission \in Nat
      /\ last_submission <= submission_timeline_count /\ queue_drain_count \in Nat
  BY DEF IInv, Shape
<1> QED BY <1>1, <1>2, WorkerIsThrough DEF timeline, locks, drains

LEMMA SubmitKeeps == IInv /\ Submit => IInv'
<1> SUFFICES ASSUME IInv, Submit PROVE IInv'
  OBVIOUS
<1>1. /\ worker.pc = "popped" /\ worker.op.type = "execute"
      /\ submission_timeline_count' = submission_timeline_count + 1
      /\ UNCHANGED <<locks, submissions, drains, user, appended>>
  BY DEF Submit
<1>2. worker \in WorkerType /\ submission_timeline_count \in Nat /\ queue_drain_count \in Nat
  BY DEF IInv, Shape
<1>3. CASE /\ worker' = [worker EXCEPT !.pc = "staggered",
                                       !.value = submission_timeline_count + 1]
           /\ UNCHANGED <<last_submission, finished>>
  <2>1. submission_timeline_count + 1 \in Nat
    BY <1>2
  <2>2. \A m \in Nat :
          [worker EXCEPT !.pc = "staggered", !.value = m] \in WorkerType
    BY <1>2 DEF WorkerType
  <2>3. worker'.pc = "staggered" /\ worker'.op = worker.op
        /\ worker'.value = submission_timeline_count'
    BY <1>1, <1>2, <1>3 DEF WorkerType
  <2>4. worker' \in WorkerType
    BY <1>3, <2>1, <2>2
  <2> QED BY <1>1, <1>2, <1>3, <2>1, <2>3, <2>4, WorkerGoesOn
<1>4. CASE /\ last_submission' = submission_timeline_count + 1
           /\ worker' = Idle /\ finished' = finished + 1
  BY <1>1, <1>2, <1>4, WorkerIsThrough DEF locks, drains
<1> QED BY <1>3, <1>4 DEF Submit

LEMMA WaitStaggeredKeeps == IInv /\ WaitStaggered => IInv'
<1> SUFFICES ASSUME IInv, WaitStaggered PROVE IInv'
  OBVIOUS
<1>1. /\ worker.pc = "staggered"
      /\ worker' = [worker EXCEPT !.pc = "waiting", !.awaited = last_submission]
      /\ UNCHANGED <<locks, submissions, drains, user, timeline, appended, finished>>
  BY DEF WaitStaggered
<1>2. /\ worker \in WorkerType /\ submission_timeline_count \in Nat
      /\ last_submission \in Nat /\ worker.op.type = "execute"
      /\ worker.value <= submission_timeline_count
  BY <1>1 DEF IInv, Shape, WorkerHoldsOp
<1>3. /\ worker' \in WorkerType /\ worker'.pc = "waiting"
      /\ worker'.op = worker.op /\ worker'.value = worker.value
  BY <1>1, <1>2 DEF WorkerType
<1> QED BY <1>1, <1>2, <1>3, WorkerGoesOn DEF timeline

LEMMA EndStaggeredKeeps == IInv /\ EndStaggered => IInv'
<1> SUFFICES ASSUME IInv, EndStaggered PROVE IInv'
  OBVIOUS
<1>1. /\ worker.pc = "waiting" /\ last_submission' = worker.value
      /\ worker' = Idle /\ finished' = finished + 1
      /\ UNCHANGED <<locks, submissions, drains, user, submission_timeline_count, appended>>
  BY DEF EndStaggered
<1>2. /\ worker \in WorkerType /\ submission_timeline_count \in Nat
      /\ worker.op.type = "execute" /\ worker.value <= submission_timeline_count
      /\ queue_drain_count \in Nat
  BY <1>1 DEF IInv, Shape, WorkerHoldsOp
<1>3. worker.value \in Nat
  BY <1>2 DEF WorkerType
<1> QED BY <1>1, <1>2, <1>3, WorkerIsThrough DEF locks, drains

\* The GPU, and steps that change nothing here.
LEMMA OtherStepKeeps ==
  ASSUME IInv, UNCHANGED <<locks, submissions, drains, worker, user,
                           submission_timeline_count, last_submission, appended, finished>>
  PROVE  IInv'
<1>1. Shape' /\ WorkerHoldsOp' /\ LocksAreHeld' /\ DrainIsComplete'
  BY DEF IInv, Shape, WorkerHoldsOp, LocksAreHeld, DrainIsComplete, locks, drains
<1>2. \A u \in Users : SameDrain(u)
  BY DEF SameDrain
<1>3. CallsAreCounted' /\ DrainsAreCounted' /\ UsersAreCounted'
  BY <1>2, WhileCallsStay DEF drains
<1> QED BY <1>1, <1>3 DEF IInv

LEMMA StepKeeps == IInv /\ [Next]_vars => IInv'
<1> SUFFICES ASSUME IInv, [Next]_vars PROVE IInv'
  OBVIOUS
<1>1. CASE ExecuteCommandLists
  BY <1>1, ExecuteKeeps
<1>2. CASE SubmissionThread
  BY <1>2, SleepKeeps, PopKeeps, FlushKeeps, CountDrainKeeps, ScheduleSignalKeeps,
     SubmitKeeps, WaitStaggeredKeeps, EndStaggeredKeeps
  DEF SubmissionThread
<1>3. CASE Gpu
  BY <1>3, OtherStepKeeps DEF Gpu
<1>4. ASSUME NEW u \in Users, Drain(u) \/ User(u) PROVE IInv'
  BY <1>4, DrainKeeps, DrainsOnKeeps, DrainedKeeps, AcquireVkQueueKeeps,
     ReleaseVkQueueKeeps, SignalKeeps
  DEF User
<1>5. CASE UNCHANGED vars
  BY <1>5, OtherStepKeeps DEF vars, timeline
<1> QED BY <1>1, <1>2, <1>3, <1>4, <1>5 DEF Next

LEMMA InvariantIsSafe == IInv => AcquireIsSafe
<1> SUFFICES ASSUME IInv PROVE TypeOK
  BY DEF AcquireIsSafe, IInv
<1>1. queue_drain_count \in 0..drain_count
  <2>1. Cardinality(DrainsOnTheWay(appended)) \in Nat
    BY DrainsAreFinite DEF IInv, Shape
  <2> QED BY <2>1 DEF IInv, Shape, DrainsAreCounted
<1>2. last_submission \in 0..submission_timeline_count
  BY DEF IInv, Shape
<1> QED BY <1>1, <1>2 DEF TypeOK, IInv, LocksAreHeld, CallsAreCounted, Busy

\* For any number of threads: whoever holds the VkQueue holds it alone, and
\* everything that was queued before is submitted (vkd3d_acquire_vk_queue).
THEOREM AcquireSafety == Spec => []AcquireIsSafe
<1>1. Init => IInv
  BY InitHolds
<1>2. IInv /\ [Next]_vars => IInv'
  BY StepKeeps
<1>3. IInv => AcquireIsSafe
  BY InvariantIsSafe
<1> QED BY <1>1, <1>2, <1>3, PTL DEF Spec
===============================================================================
