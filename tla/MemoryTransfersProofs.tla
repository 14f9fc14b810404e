------------------------ MODULE MemoryTransfersProofs -------------------------
(***************************************************************************)
(* Proofs about the memory transfer queue, for any number of allocations,  *)
(* queues, textures, buffers and failures and chunks of any size: what the *)
(* GPU touches exists, and what the list of transfers is relied on to say  *)
(* is true.                                                                *)
(***************************************************************************)
EXTENDS MemoryTransfers, FiniteSetsExt, FiniteSetTheorems, SequenceTheorems, TLAPS

-----------------------------------------------------------------------------
(* Data.                                                                   *)

(* A bounded, non-empty set of natural numbers has a largest and a least   *)
(* element.  (The intervals x..N are finite sets; a minimal one of them,   *)
(* under strict inclusion, belongs to the largest x.)                      *)

LEMMA MaxOfBounded ==
  ASSUME NEW N \in Nat, NEW S \in SUBSET (0..N), S # {}
  PROVE  Max(S) \in S /\ \A y \in S : y <= Max(S)
<1> DEFINE T == {x..N : x \in S}
<1>1. \A x \in S : x \in 0..N /\ x..N \in SUBSET Nat /\ IsFiniteSet(x..N)
  <2> TAKE x \in S
  <2>1. x \in 0..N
    OBVIOUS
  <2>2. IsFiniteSet(x..N)
    BY <2>1, FS_Interval
  <2> QED BY <2>1, <2>2
<1>2. T \subseteq FiniteSubsetsOf(Nat)
  BY <1>1, Zenon DEF FiniteSubsetsOf
<1>3. T # {}
  OBVIOUS
<1> HIDE DEF T
<1>4. PICK t \in T : \A u \in T : ~(<<u, t>> \in StrictSubsetOrdering(Nat))
  BY <1>2, <1>3, FS_StrictSubsetOrderingWellFounded, WFMin, Zenon
<1>5. PICK x \in S : t = x..N
  BY <1>4, Zenon DEF T
<1>6. \A y \in S : y <= x
  <2> SUFFICES ASSUME NEW y \in S, ~(y <= x) PROVE FALSE
    OBVIOUS
  <2>1. x < y /\ x \in 0..N /\ y \in 0..N
    BY <1>1
  <2>2. y..N \subseteq x..N /\ x \in x..N /\ x \notin y..N
    BY <2>1
  <2>3. y..N \in SUBSET Nat /\ x..N \in SUBSET Nat
    BY <1>1, Zenon
  <2>4. <<y..N, x..N>> \in StrictSubsetOrdering(Nat)
    BY <2>2, <2>3 DEF StrictSubsetOrdering
  <2>5. y..N \in T
    BY Zenon DEF T
  <2> QED BY <1>4, <1>5, <2>4, <2>5, Zenon
<1>7. \A y \in S : x >= y
  BY <1>1, <1>6
<1>8. Max(S) \in S /\ \A y \in S : Max(S) >= y
  BY <1>7 DEF Max
<1> QED BY <1>8, <1>1

LEMMA LeastOfBounded ==
  ASSUME NEW N \in Nat, NEW S \in SUBSET (0..N), S # {}
  PROVE  \E x \in S : \A y \in S : x <= y
<1> DEFINE M == {N - x : x \in S}
<1>1. M \in SUBSET (0..N) /\ M # {}
  <2>1. ASSUME NEW x \in S PROVE N - x \in 0..N
    OBVIOUS
  <2>2. PICK x : x \in S
    OBVIOUS
  <2>3. N - x \in M
    BY <2>2
  <2> QED BY <2>1, <2>3, Zenon
<1>2. Max(M) \in M /\ \A y \in M : y <= Max(M)
  BY <1>1, MaxOfBounded
<1>3. PICK x \in S : Max(M) = N - x
  BY <1>2
<1>4. \A y \in S : x <= y
  <2> TAKE y \in S
  <2>1. N - y <= N - x
    BY <1>2, <1>3
  <2> QED BY <2>1
<1> QED BY <1>4

\* Something is a sequence, without saying of what.
IsSeq(s) == \E S : s \in Seq(S)

LEMMA AppendElements ==
  ASSUME NEW s, IsSeq(s), NEW e
  PROVE  /\ IsSeq(Append(s, e)) /\ Len(s) \in Nat /\ DOMAIN s = 1..Len(s)
         /\ DOMAIN Append(s, e) = 1..(Len(s) + 1) /\ Append(s, e) # <<>>
         /\ \A i \in 1..Len(s) : Append(s, e)[i] = s[i]
         /\ Append(s, e)[Len(s) + 1] = e
<1>1. PICK S : s \in Seq(S)
  BY DEF IsSeq
<1>2. s \in Seq(S \cup {e}) /\ e \in S \cup {e}
  BY <1>1
<1>3. Append(s, e) \in Seq(S \cup {e})
  BY <1>2
<1>4. Len(Append(s, e)) # 0
  BY <1>2
<1> QED BY <1>2, <1>3, <1>4 DEF IsSeq

LEMMA TailElements ==
  ASSUME NEW s, IsSeq(s), s # <<>>
  PROVE  /\ IsSeq(Tail(s)) /\ Len(s) \in Nat \ {0} /\ DOMAIN s = 1..Len(s)
         /\ DOMAIN Tail(s) = 1..(Len(s) - 1) /\ Head(s) = s[1]
         /\ \A i \in 1..(Len(s) - 1) : Tail(s)[i] = s[i + 1]
<1>1. PICK S : s \in Seq(S)
  BY DEF IsSeq
<1>2. Tail(s) \in Seq(S)
  BY <1>1
<1> QED BY <1>1, <1>2 DEF IsSeq

(* Counting the positions of a sequence that have a property: what an element  *)
(* that is appended, an element that is taken away, and a sequence that is     *)
(* appended make of the count.                                                *)

LEMMA IndicesAreFinite ==
  ASSUME NEW n \in Nat, NEW I \in SUBSET (1..n)
  PROVE  IsFiniteSet(I) /\ Cardinality(I) \in Nat
<1>1. IsFiniteSet(1..n)
  BY FS_Interval
<1>2. IsFiniteSet(I)
  BY <1>1, FS_Subset
<1> QED BY <1>2, FS_CardinalityType

LEMMA IndicesOfAppend ==
  ASSUME NEW n \in Nat, NEW I \in SUBSET (1..n), NEW J \in SUBSET (1..(n + 1)),
         \A i \in 1..n : i \in J <=> i \in I
  PROVE  Cardinality(J) = Cardinality(I) + (IF n + 1 \in J THEN 1 ELSE 0)
<1>1. IsFiniteSet(I) /\ Cardinality(I) \in Nat
  BY IndicesAreFinite
<1>0. /\ \A i \in 1..(n + 1) : i \in 1..n \/ i = n + 1
      /\ n + 1 \notin 1..n
  OBVIOUS
<1>2. CASE n + 1 \in J
  <2>1. J = I \cup {n + 1} /\ n + 1 \notin I
    BY <1>0, <1>2, Zenon
  <2>2. Cardinality(I \cup {n + 1}) = Cardinality(I) + 1
    BY <1>1, <2>1, FS_AddElement
  <2> QED BY <1>2, <2>1, <2>2
<1>3. CASE n + 1 \notin J
  <2>1. J = I
    BY <1>0, <1>3, Zenon
  <2> QED BY <1>1, <1>3, <2>1
<1> QED BY <1>2, <1>3

\* Positions that are all moved by k stay as many.
LEMMA IndicesShifted ==
  ASSUME NEW n \in Nat, NEW k \in Int, NEW I \in SUBSET (1..n)
  PROVE  LET J == {i + k : i \in I} IN IsFiniteSet(J) /\ Cardinality(J) = Cardinality(I)
<1> DEFINE J == {i + k : i \in I}
           g == [i \in I |-> i + k]
<1>1. g \in [I -> J]
  OBVIOUS
<1>2. \A a, b \in I : g[a] = g[b] => a = b
  <2> TAKE a, b \in I
  <2>1. a \in Int /\ b \in Int
    OBVIOUS
  <2> QED BY <2>1
<1>3. \A t \in J : \E i \in I : g[i] = t
  OBVIOUS
<1>4. g \in Bijection(I, J)
  BY <1>1, <1>2, <1>3 DEF Bijection, Injection, Surjection, IsInjective
<1>5. IsFiniteSet(I)
  BY IndicesAreFinite
<1>6. ExistsBijection(I, J)
  BY <1>4 DEF ExistsBijection
<1> QED BY <1>5, <1>6, FS_Bijection

LEMMA IndicesOfTail ==
  ASSUME NEW n \in Nat \ {0}, NEW I \in SUBSET (1..n), NEW J \in SUBSET (1..(n - 1)),
         \A i \in 1..(n - 1) : i \in J <=> i + 1 \in I
  PROVE  Cardinality(J) = Cardinality(I) - (IF 1 \in I THEN 1 ELSE 0)
<1> DEFINE K == {i + 1 : i \in J}
<1>0. n - 1 \in Nat /\ 1 \in Int
  OBVIOUS
<1>1. Cardinality(K) = Cardinality(J)
  BY <1>0, IndicesShifted, Zenon
<1>2. K = I \ {1}
  <2>1. ASSUME NEW i \in I, i # 1 PROVE i \in K
    <3>1. i - 1 \in 1..(n - 1) /\ (i - 1) + 1 = i
      BY <2>1
    <3> QED BY <3>1
  <2>2. ASSUME NEW i \in K PROVE i \in I /\ i # 1
    <3>1. PICK j \in J : i = j + 1
      OBVIOUS
    <3> QED BY <3>1
  <2> QED BY <2>1, <2>2
<1> HIDE DEF K
<1>3. IsFiniteSet(I) /\ Cardinality(I) \in Nat
  BY IndicesAreFinite
<1>4. Cardinality(I \ {1}) = IF 1 \in I THEN Cardinality(I) - 1 ELSE Cardinality(I)
  BY <1>3, FS_RemoveElement
<1> QED BY <1>1, <1>2, <1>3, <1>4

LEMMA IndicesOfConcat ==
  ASSUME NEW m \in Nat, NEW n \in Nat, NEW J \in SUBSET (1..(m + n))
  PROVE  Cardinality(J) =
           Cardinality({i \in 1..m : i \in J}) + Cardinality({i \in 1..n : m + i \in J})
<1> DEFINE I == {i \in 1..m : i \in J}
           K == {i \in 1..n : m + i \in J}
<1>0. I \in SUBSET (1..m) /\ K \in SUBSET (1..n) /\ m \in Int
  OBVIOUS
<1> DEFINE L == {i + m : i \in K}
<1>1. IsFiniteSet(L) /\ Cardinality(L) = Cardinality(K)
  BY <1>0, IndicesShifted, Zenon
<1>2. J = I \cup L
  <2>1. ASSUME NEW j \in J PROVE j \in I \cup L
    <3>1. CASE j \in 1..m
      BY <3>1
    <3>2. CASE j \notin 1..m
      <4>1. j - m \in 1..n /\ m + (j - m) = j /\ (j - m) + m = j
        BY <3>2
      <4> QED BY <4>1
    <3> QED BY <3>1, <3>2
  <2>2. ASSUME NEW j \in L PROVE j \in J
    <3>1. PICK i \in K : j = i + m
      OBVIOUS
    <3>2. m + i \in J
      OBVIOUS
    <3>3. m + i = i + m
      <4>1. i \in 1..n
        OBVIOUS
      <4> QED BY <4>1
    <3> QED BY <3>1, <3>2, <3>3
  <2> QED BY <2>1, <2>2
<1>3. I \cap L = {}
  OBVIOUS
<1> HIDE DEF L, I, K
<1>4. IsFiniteSet(I) /\ Cardinality(I) \in Nat /\ Cardinality(K) \in Nat
  BY <1>0, IndicesAreFinite
<1>5. Cardinality(I \cup L) = Cardinality(I) + Cardinality(L) - Cardinality({})
  BY <1>1, <1>3, <1>4, FS_Union
<1>6. Cardinality(J) = Cardinality(I) + Cardinality(K)
  BY <1>1, <1>2, <1>4, <1>5, FS_EmptySet
<1> QED BY <1>6 DEF I, K


-----------------------------------------------------------------------------
(* The invariant.                                                          *)

Busy == {"flushes", "live", "check", "search"}
InList(o) == Clear(o) \in Range(transfers)
Submitted == IF mutex = "waits" THEN next ELSE next - 1

SeqInv ==
  /\ TypeOK
  /\ IsSeq(transfers) /\ IsSeq(onGpu) /\ IsSeq(tracked) /\ IsSeq(batch)
  /\ DOMAIN gpuQueue = Queues /\ \A q \in Queues : IsSeq(gpuQueue[q])
  /\ mutex # "waits" => todo = {}

\* Who owns memory, and what lists it.
OwnerInv ==
  /\ \A a \in Allocs :
       /\ work[a] # "none" => pc[a] = "live"
       /\ InList(a) => work[a] \in {"none", "flushes"}
       /\ Listed(a) => pc[a] \in Busy /\ clear[a] = next
       /\ pc[a] \in {"flushes", "live"} /\ zeroed[a] /\ clear[a] = next => InList(a)
  /\ \A a \in Subs : /\ pc[a] # "none" => pc[Chunk] = "live"
                     /\ Listed(a) => clear[Chunk] = next
  /\ WaitIsSubmitted

\* A transfer is listed once, and the clears are counted.
ListInv ==
  /\ \A i, j \in DOMAIN transfers : i # j /\ transfers[i].op = "clear" => transfers[i] # transfers[j]
  /\ PendingIsListed

\* The command buffer before the current one, and so on.
BufferBefore(k) == IF k <= buffer THEN buffer - k ELSE buffer - k + Buffers

GpuInv ==
  /\ sem <= Submitted /\ Len(onGpu) = Submitted - sem /\ Len(onGpu) <= Buffers
  /\ \A i \in DOMAIN onGpu : /\ onGpu[i].value = sem + i
                             /\ onGpu[i].buffer = BufferBefore(next - (sem + i))

\* Memory stays until the semaphore has reached the value.
Outlives(o, value) ==
  /\ pc[o] \in Busy \cup {"blocked"} /\ clear[o] >= value
  /\ pc[o] = "blocked" => until[o] >= value
  /\ o \in Dedicated => clear[o] = value

\* What the GPU has not finished is waited for before its memory is given back.
ClearInv ==
  \A i \in DOMAIN onGpu : \A a \in Allocs :
    Clear(a) \in Range(onGpu[i].ops) => Outlives(Memory(a), onGpu[i].value)

Fresh(set) == \A m \in set : content[m] \in {"old", "zero"}

\* Memory is not used before it is cleared.
FreshBefore ==
  \A a \in Allocs : pc[a] = "taken" \/ Listed(a) => Fresh(MemoryOf(a))

\* Memory in use was cleared, or will be.
ClearedFirst ==
  \A a \in Allocs : zeroed[a] /\ pc[a] \in {"flushes", "live"} =>
    \/ Listed(a)
    \/ \E i \in DOMAIN onGpu : MemoryOf(a) \subseteq onGpu[i].cells
    \/ \A m \in MemoryOf(a) : content[m] # "old"

CellsFresh == \A i \in DOMAIN onGpu : onGpu[i].cells \subseteq Memories /\ Fresh(onGpu[i].cells)

ContentInv == NothingIsSpoilt /\ FreshBefore /\ ClearedFirst /\ CellsFresh

Meets(i, a) == onGpu[i].cells \cap MemoryOf(a) # {}

\* Queue q does nothing more before the semaphore has reached the value.
Covers(q, value) ==
  waits[q] >= value \/ \E i \in DOMAIN gpuQueue[q] : gpuQueue[q][i].wait >= value

\* What is submitted: a job is in one queue.
JobsInv ==
  \A q \in Queues : \A i \in DOMAIN gpuQueue[q] :
    /\ gpuQueue[q][i].of \in Allocs /\ gpuQueue[q][i].wait \in 0 .. next
    /\ work[gpuQueue[q][i].of] = "submitted"
    /\ \A p \in Queues : \A j \in DOMAIN gpuQueue[p] :
         gpuQueue[p][j].of = gpuQueue[q][i].of => p = q /\ i = j

\* A job comes after the clears of its memory: it waits for them, or a job before it.
JobsWait ==
  \A q \in Queues : \A i \in DOMAIN gpuQueue[q] : \A k \in DOMAIN onGpu :
    Meets(k, gpuQueue[q][i].of) => \E j \in 1 .. i : gpuQueue[q][j].wait >= onGpu[k].value

\* So will those that are not submitted yet.
QueuedLater ==
  \A a \in Allocs : work[a] = "queued" =>
    \A k \in DOMAIN onGpu : Meets(k, a) => onGpu[k].value < next

QueuesCover ==
  \A q \in Queues : \A k \in DOMAIN onGpu :
    onGpu[k].value < next \/ q \notin todo => Covers(q, onGpu[k].value)

QueueInv == JobsInv /\ JobsWait /\ QueuedLater /\ QueuesCover

Apart(o1, n1, o2, n2) == o1 + n1 <= o2 \/ o2 + n2 <= o1

InRange(r, m) == r.offset <= m /\ m < End(r)

\* The ranges are sorted, apart by at least one cell, and have exactly these cells.
Describes(r, free) ==
  /\ IsSeq(r)
  /\ \A i \in DOMAIN r : r[i] \in [offset : Nat, length : Nat \ {0}]
  /\ \A i, j \in DOMAIN r : i < j => End(r[i]) < r[j].offset
  /\ free = {m \in Nat : \E i \in DOMAIN r : InRange(r[i], m)}

Held == {a \in Subs : pc[a] # "none"}
Rest == (0 .. ChunkSize - 1) \ UNION {MemoryOf(a) : a \in Held}

\* Suballocations are apart, and the free ranges are the rest of the chunk.
RangeInv ==
  /\ \A a \in Subs : pc[a] # "none" =>
       /\ offset[a] \in Nat /\ offset[a] + SizeOf[a] <= ChunkSize /\ offset[a] % AlignmentOf[a] = 0
       /\ \A b \in Subs \ {a} : pc[b] # "none" => Apart(offset[a], SizeOf[a], offset[b], SizeOf[b])
  /\ pc[Chunk] # "none" => Describes(free_ranges, Rest)

Tracked(list, r) == {i \in DOMAIN list : list[i].of = r}

RefInv ==
  /\ \A r \in Textures :
       refs[r] = Cardinality(Tracked(tracked, r)) + Cardinality(Tracked(batch, r))
  /\ \A i \in DOMAIN tracked : tracked[i].of \in Textures /\ tracked[i].value \in Nat
  /\ \A i \in DOMAIN batch : batch[i].of \in Textures /\ batch[i].value \in Nat
  /\ \A i \in DOMAIN onGpu : \A t \in Range(onGpu[i].ops) : t.op = "write" =>
       \E e \in Range(tracked) \cup Range(batch) : e.of = t.of /\ e.value >= onGpu[i].value

\* The clear that gave memory the next value is listed, or was taken from the list,
\* and then only is there memory in use with that value.
PollInv ==
  /\ withdrawn \in BOOLEAN /\ next \in Nat \ {0}
  /\ \A o \in Objects : clear[o] = next => withdrawn \/ \E a \in Allocs : InList(a)
  /\ \A a \in Allocs : InUse(a) /\ clear[a] = next => withdrawn

IInv ==
  /\ SeqInv /\ OwnerInv /\ ListInv /\ GpuInv /\ ClearInv /\ ContentInv /\ QueueInv
  /\ RangeInv /\ RefInv /\ PollInv

-----------------------------------------------------------------------------
(* The writes in a list.                                                   *)

LEMMA WritesOfList ==
  ASSUME NEW s, IsSeq(s)
  PROVE  LET w == WritesIn(s) IN
         /\ IsSeq(w)
         /\ \A i \in DOMAIN w : w[i].op = "write" /\ \E j \in DOMAIN s : w[i] = s[j]
         /\ \A j \in DOMAIN s : s[j].op = "write" => \E i \in DOMAIN w : w[i] = s[j]
<1> DEFINE N == Len(s)
           Step(f, n) == IF n = 0 THEN <<>>
                         ELSE IF s[n].op = "write" THEN Append(f[n - 1], s[n]) ELSE f[n - 1]
           Is(f, m) == f = [n \in 0 .. m |-> Step(f, n)]
           upTo == CHOOSE f : Is(f, N)
<1>1. N \in Nat /\ DOMAIN s = 1 .. N
  BY AppendElements
<1>2. \A m \in 0 .. N : \E f : Is(f, m)
  <2> DEFINE Bad == {m \in 0 .. N : ~\E f : Is(f, m)}
  <2> SUFFICES ASSUME Bad # {} PROVE FALSE
    OBVIOUS
  <2>1. Bad \in SUBSET (0 .. N)
    OBVIOUS
  <2>2. \E m \in Bad : \A k \in Bad : m <= k
    BY ONLY <1>1, <2>1, Bad # {}, LeastOfBounded
  <2>3. PICK m \in Bad : \A k \in Bad : m <= k
    BY <2>2
  <2>4. CASE m = 0
    <3> DEFINE g == [n \in 0 .. 0 |-> <<>>]
    <3>1. g = [n \in 0 .. 0 |-> Step(g, n)]
      OBVIOUS
    <3> QED BY <2>3, <2>4, <3>1
  <2>5. CASE m # 0
    <3>a. m \in 0 .. N
      BY <2>1, <2>3
    <3>b. m \in Nat /\ m - 1 \in 0 .. N /\ ~(m <= m - 1)
      BY ONLY <1>1, <2>5, <3>a
    <3>c. m - 1 \notin Bad
      BY ONLY <2>3, <3>b
    <3>1. m - 1 \in 0 .. N /\ m - 1 \notin Bad /\ m \in Nat
      BY ONLY <3>b, <3>c
    <3>2. PICK f : Is(f, m - 1)
      BY <3>1
    <3> DEFINE g == [n \in 0 .. m |-> IF n < m THEN f[n] ELSE Step(f, m)]
    <3>3. ASSUME NEW n \in 0 .. m PROVE g[n] = Step(g, n)
      <4>1. CASE n < m
        <5>a. n \in 0 .. (m - 1)
          BY ONLY <3>1, <4>1, n \in 0 .. m
        <5>1. n \in 0 .. (m - 1) /\ f[n] = Step(f, n)
          BY ONLY <3>2, <5>a
        <5>2. n # 0 => n - 1 \in 0 .. m /\ n - 1 < m
          BY <3>1, <4>1
        <5> QED BY <4>1, <5>1, <5>2
      <4>2. CASE n = m
        <5>1. m - 1 \in 0 .. m /\ m - 1 < m
          BY <2>5, <3>1
        <5> QED BY <2>5, <4>2, <5>1
      <4> QED BY <3>1, <4>1, <4>2
    <3>4. g = [n \in 0 .. m |-> g[n]]
      OBVIOUS
    <3> HIDE DEF g
    <3>5. g = [n \in 0 .. m |-> Step(g, n)]
      BY <3>3, <3>4
    <3> QED BY <2>3, <3>5
  <2> QED BY <2>4, <2>5
<1>3. upTo = [n \in 0 .. N |-> Step(upTo, n)]
  <2>1. N \in 0 .. N
    BY <1>1
  <2>2. \E f : Is(f, N)
    BY ONLY <1>2, <2>1
  <2> HIDE DEF Is
  <2>3. Is(upTo, N)
    BY ONLY <2>2, Zenon
  <2> QED BY <2>3 DEF Is
<1>4. WritesIn(s) = upTo[N]
  BY Zenon DEF WritesIn
<1> HIDE DEF upTo
<1>5. /\ upTo[0] = <<>>
      /\ \A n \in 1 .. N : upTo[n] = IF s[n].op = "write" THEN Append(upTo[n - 1], s[n])
                                     ELSE upTo[n - 1]
  <2> HIDE DEF Step
  <2>1. \A n \in 0 .. N : upTo[n] = Step(upTo, n)
    BY ONLY <1>3, Zenon
  <2>2. 0 \in 0 .. N /\ \A n \in 1 .. N : n \in 0 .. N /\ n # 0
    BY ONLY <1>1
  <2> QED BY <2>1, <2>2 DEF Step
<1> DEFINE Good(n) ==
             /\ IsSeq(upTo[n])
             /\ \A i \in DOMAIN upTo[n] :
                  upTo[n][i].op = "write" /\ \E j \in 1 .. n : upTo[n][i] = s[j]
             /\ \A j \in 1 .. n : s[j].op = "write" => \E i \in DOMAIN upTo[n] : upTo[n][i] = s[j]
<1>6. Good(0)
  <2>1. IsSeq(<<>>) /\ DOMAIN <<>> = {}
    BY DEF IsSeq
  <2> QED BY <1>5, <2>1
<1>7. ASSUME NEW n \in 1 .. N, Good(n - 1) PROVE Good(n)
  <2>1. CASE s[n].op = "write"
    <3> DEFINE t == upTo[n - 1]
    <3>1. upTo[n] = Append(t, s[n]) /\ IsSeq(t)
      BY <1>5, <1>7, <2>1
    <3>2. /\ IsSeq(Append(t, s[n])) /\ Len(t) \in Nat /\ DOMAIN t = 1 .. Len(t)
          /\ DOMAIN Append(t, s[n]) = 1 .. (Len(t) + 1)
          /\ \A i \in 1 .. Len(t) : Append(t, s[n])[i] = t[i]
          /\ Append(t, s[n])[Len(t) + 1] = s[n]
      BY <3>1, AppendElements
    <3>3. /\ \A i \in DOMAIN t : t[i].op = "write" /\ \E j \in 1 .. (n - 1) : t[i] = s[j]
          /\ \A j \in 1 .. (n - 1) : s[j].op = "write" => \E i \in DOMAIN t : t[i] = s[j]
      BY <1>7
    <3> HIDE DEF t
    <3>4. ASSUME NEW i \in DOMAIN upTo[n]
          PROVE  upTo[n][i].op = "write" /\ \E j \in 1 .. n : upTo[n][i] = s[j]
      <4>1. CASE i = Len(t) + 1
        BY <2>1, <3>1, <3>2, <4>1
      <4>2. CASE i \in 1 .. Len(t)
        BY <3>1, <3>2, <3>3, <4>2
      <4> QED BY <3>1, <3>2, <4>1, <4>2
    <3>5. ASSUME NEW j \in 1 .. n, s[j].op = "write" PROVE \E i \in DOMAIN upTo[n] : upTo[n][i] = s[j]
      <4>1. CASE j = n
        <5>1. Len(t) + 1 \in DOMAIN upTo[n] /\ upTo[n][Len(t) + 1] = s[j]
          BY <3>1, <3>2, <4>1
        <5> QED BY <5>1
      <4>2. CASE j \in 1 .. (n - 1)
        <5>1. PICK i \in DOMAIN t : t[i] = s[j]
          BY <3>3, <3>5, <4>2
        <5>2. i \in DOMAIN upTo[n] /\ upTo[n][i] = s[j]
          BY <3>1, <3>2, <5>1
        <5> QED BY <5>2
      <4> QED BY <4>1, <4>2
    <3> QED BY <3>1, <3>2, <3>4, <3>5
  <2>2. CASE s[n].op # "write"
    <3>1. upTo[n] = upTo[n - 1]
      BY <1>5, <2>2
    <3> QED BY <1>1, <1>7, <2>2, <3>1
  <2> QED BY <2>1, <2>2
<1>8. Good(N)
  <2> DEFINE Bad == {n \in 0 .. N : ~Good(n)}
  <2> SUFFICES ASSUME Bad # {} PROVE FALSE
    BY <1>1
  <2>1. Bad \in SUBSET (0 .. N)
    OBVIOUS
  <2> HIDE DEF Good
  <2>2. \E n \in Bad : \A k \in Bad : n <= k
    BY ONLY <1>1, <2>1, Bad # {}, LeastOfBounded
  <2>3. PICK n \in Bad : \A k \in Bad : n <= k
    BY <2>2
  <2>4. n \in 1 .. N
    BY <1>1, <1>6, <2>3
  <2>5. n - 1 \in 0 .. N /\ n - 1 \notin Bad
    BY <1>1, <2>3, <2>4
  <2>6. Good(n - 1)
    BY <2>5
  <2> QED BY <1>7, <2>3, <2>4, <2>6
<1> QED BY <1>1, <1>4, <1>8

-----------------------------------------------------------------------------
(* The free ranges of a chunk.                                             *)

LEMMA ConcatElements ==
  ASSUME NEW s, IsSeq(s), NEW t, IsSeq(t)
  PROVE  /\ IsSeq(s \o t) /\ Len(s) \in Nat /\ Len(t) \in Nat
         /\ DOMAIN s = 1 .. Len(s) /\ DOMAIN t = 1 .. Len(t)
         /\ DOMAIN (s \o t) = 1 .. (Len(s) + Len(t))
         /\ \A i \in 1 .. Len(s) : (s \o t)[i] = s[i]
         /\ \A i \in 1 .. Len(t) : (s \o t)[Len(s) + i] = t[i]
         /\ \A i \in DOMAIN (s \o t) :
              \/ i \in DOMAIN s /\ (s \o t)[i] = s[i]
              \/ i - Len(s) \in DOMAIN t /\ (s \o t)[i] = t[i - Len(s)]
<1>1. PICK S : s \in Seq(S)
  BY DEF IsSeq
<1>2. PICK T : t \in Seq(T)
  BY DEF IsSeq
<1>3. s \in Seq(S \cup T) /\ t \in Seq(S \cup T)
  BY <1>1, <1>2
<1>4. s \o t \in Seq(S \cup T)
  BY <1>3
<1> HIDE DEF IsSeq
<1>5. IsSeq(s \o t)
  BY <1>4 DEF IsSeq
<1>6. /\ Len(s) \in Nat /\ Len(t) \in Nat
      /\ DOMAIN s = 1 .. Len(s) /\ DOMAIN t = 1 .. Len(t)
      /\ DOMAIN (s \o t) = 1 .. (Len(s) + Len(t))
  BY <1>3
<1>7. /\ \A i \in 1 .. Len(s) : (s \o t)[i] = s[i]
      /\ \A i \in 1 .. Len(t) : (s \o t)[Len(s) + i] = t[i]
  BY <1>3
<1>8. ASSUME NEW i \in DOMAIN (s \o t)
      PROVE  \/ i \in DOMAIN s /\ (s \o t)[i] = s[i]
             \/ i - Len(s) \in DOMAIN t /\ (s \o t)[i] = t[i - Len(s)]
  <2>1. CASE i <= Len(s)
    BY <1>6, <1>7, <2>1
  <2>2. CASE ~(i <= Len(s))
    <3>1. i - Len(s) \in 1 .. Len(t) /\ Len(s) + (i - Len(s)) = i
      BY <1>6, <2>2
    <3> QED BY <1>6, <1>7, <3>1
  <2> QED BY <2>1, <2>2
<1> QED BY <1>5, <1>6, <1>7, <1>8

LEMMA SubSeqElements ==
  ASSUME NEW s, IsSeq(s), NEW m \in Int, NEW n \in Int, 1 <= m, n <= Len(s), m <= n + 1
  PROVE  /\ IsSeq(SubSeq(s, m, n)) /\ DOMAIN SubSeq(s, m, n) = 1 .. (n - m + 1)
         /\ \A i \in 1 .. (n - m + 1) : SubSeq(s, m, n)[i] = s[m + i - 1]
<1>1. PICK S : s \in Seq(S)
  BY DEF IsSeq
<1>2. \A i \in m .. n : s[i] \in S
  BY <1>1
<1>3. SubSeq(s, m, n) \in Seq(S)
  BY <1>1, <1>2, SubSeqProperties
<1>4. DOMAIN SubSeq(s, m, n) = 1 .. (n - m + 1)
  BY <1>1, <1>2, SubSeqProperties
<1> QED BY <1>1, <1>3, <1>4, SubSeqProperties DEF IsSeq


-----------------------------------------------------------------------------
(* The free ranges of a chunk as a set of cells.                           *)

LEMMA DescribedRanges ==
  ASSUME NEW r, NEW free, Describes(r, free)
  PROVE  /\ DOMAIN r = 1 .. Len(r) /\ Len(r) \in Nat /\ r = [i \in 1 .. Len(r) |-> r[i]]
         /\ \A i \in DOMAIN r : /\ r[i].offset \in Nat /\ r[i].length \in Nat \ {0} /\ End(r[i]) \in Nat
                                /\ r[i].offset < End(r[i]) /\ End(r[i]) - r[i].offset = r[i].length
                                /\ r[i] = [offset |-> r[i].offset, length |-> r[i].length]
         /\ \A i, j \in DOMAIN r : i < j => End(r[i]) < r[j].offset
         /\ \A m \in free : m \in Nat /\ \E i \in DOMAIN r : r[i].offset <= m /\ m < End(r[i])
         /\ \A m \in Nat : (\E i \in DOMAIN r : r[i].offset <= m /\ m < End(r[i])) => m \in free
<1>1. PICK S : r \in Seq(S)
  BY DEF Describes, IsSeq
<1>2. DOMAIN r = 1 .. Len(r) /\ Len(r) \in Nat /\ r = [i \in 1 .. Len(r) |-> r[i]]
  BY <1>1
<1>3. ASSUME NEW i \in DOMAIN r
      PROVE  /\ r[i].offset \in Nat /\ r[i].length \in Nat \ {0} /\ End(r[i]) \in Nat
             /\ r[i].offset < End(r[i]) /\ End(r[i]) - r[i].offset = r[i].length
             /\ r[i] = [offset |-> r[i].offset, length |-> r[i].length]
  BY <1>3 DEF Describes, End
<1> QED BY <1>2, <1>3 DEF Describes, InRange

\* A range ends before a cell that is not free, and starts behind one.
LEMMA EdgesAreNotFree ==
  ASSUME NEW r, NEW free, Describes(r, free), NEW i \in DOMAIN r
  PROVE  End(r[i]) \notin free /\ r[i].offset - 1 \notin free /\ r[i].offset \in free /\ End(r[i]) - 1 \in free
<1>1. /\ DOMAIN r = 1 .. Len(r) /\ Len(r) \in Nat
      /\ \A j \in DOMAIN r : r[j].offset \in Nat /\ End(r[j]) \in Nat /\ r[j].offset < End(r[j])
      /\ \A k, j \in DOMAIN r : k < j => End(r[k]) < r[j].offset
      /\ \A m \in free : m \in Nat /\ \E j \in DOMAIN r : r[j].offset <= m /\ m < End(r[j])
      /\ \A m \in Nat : (\E j \in DOMAIN r : r[j].offset <= m /\ m < End(r[j])) => m \in free
  BY DescribedRanges
<1>2. ASSUME NEW j \in DOMAIN r
      PROVE  /\ ~(r[j].offset <= End(r[i]) /\ End(r[i]) < End(r[j]))
             /\ ~(r[j].offset <= r[i].offset - 1 /\ r[i].offset - 1 < End(r[j]))
  <2>1. j < i \/ j = i \/ i < j
    BY <1>1
  <2>2. CASE j < i
    BY <1>1, <2>2
  <2>3. CASE j = i
    BY <1>1, <2>3
  <2>4. CASE i < j
    BY <1>1, <2>4
  <2> QED BY <2>1, <2>2, <2>3, <2>4
<1>3. End(r[i]) - 1 \in Nat /\ r[i].offset <= End(r[i]) - 1 /\ End(r[i]) - 1 < End(r[i])
  BY <1>1
<1>4. r[i].offset \in free /\ End(r[i]) - 1 \in free
  BY <1>1, <1>3
<1>5. End(r[i]) \notin free /\ r[i].offset - 1 \notin free
  BY <1>1, <1>2
<1> QED BY <1>4, <1>5

\* The values of an increasing function are ordered like their indices.
LEMMA Increasing ==
  ASSUME NEW n \in Nat, NEW f, DOMAIN f = 1 .. n, \A i \in 1 .. n : f[i] \in Nat,
         \A i, j \in 1 .. n : i < j => f[i] < f[j]
  PROVE  LET S == {f[i] : i \in 1 .. n} IN
         /\ Cardinality(S) = n
         /\ \A k \in 1 .. n : (CHOOSE a \in S : Cardinality({b \in S : b < a}) = k - 1) = f[k]
<1> DEFINE S == {f[i] : i \in 1 .. n}
           Below(a) == {b \in S : b < a}
<1>1. \A i, j \in 1 .. n : f[i] = f[j] => i = j
  <2> TAKE i, j \in 1 .. n
  <2>1. i < j \/ i = j \/ j < i
    OBVIOUS
  <2>2. f[i] \in Nat /\ f[j] \in Nat /\ (i < j => f[i] < f[j]) /\ (j < i => f[j] < f[i])
    OBVIOUS
  <2> QED BY <2>1, <2>2
<1>2. ASSUME NEW m \in 0 .. n  PROVE Cardinality({f[i] : i \in 1 .. m}) = m
  <2> DEFINE T == {f[i] : i \in 1 .. m}
             g == [i \in 1 .. m |-> f[i]]
  <2>1. 1 .. m \subseteq 1 .. n /\ m \in Nat
    OBVIOUS
  <2>2. g \in [1 .. m -> T] /\ (\A i, j \in 1 .. m : g[i] = g[j] => i = j) /\ (\A t \in T : \E i \in 1 .. m : g[i] = t)
    BY <1>1, <2>1
  <2>3. ExistsBijection(1 .. m, T)
    <3> HIDE DEF g, T
    <3>1. g \in Bijection(1 .. m, T)
      BY <2>2 DEF Bijection, Injection, Surjection, IsInjective
    <3> QED BY <3>1 DEF ExistsBijection
  <2>4. IsFiniteSet(1 .. m) /\ Cardinality(1 .. m) = m
    BY <2>1, FS_Interval
  <2> HIDE DEF g, T
  <2>5. Cardinality(T) = Cardinality(1 .. m)
    BY <2>3, <2>4, FS_Bijection
  <2> QED BY <2>4, <2>5 DEF T
<1>3. ASSUME NEW k \in 1 .. n  PROVE Cardinality(Below(f[k])) = k - 1
  <2>1. Below(f[k]) = {f[i] : i \in 1 .. k - 1}
    <3>1. ASSUME NEW b \in Below(f[k])  PROVE b \in {f[i] : i \in 1 .. k - 1}
      <4>1. PICK i \in 1 .. n : b = f[i]
        BY <3>1
      <4>2. f[i] < f[k] /\ f[i] \in Nat /\ f[k] \in Nat /\ (k < i => f[k] < f[i])
        BY <3>1, <4>1
      <4>3. i \in 1 .. k - 1
        BY <4>2
      <4> QED BY <4>1, <4>3
    <3>2. ASSUME NEW i \in 1 .. k - 1  PROVE f[i] \in Below(f[k])
      <4>1. i \in 1 .. n /\ i < k
        OBVIOUS
      <4> QED BY <4>1
    <3> QED BY <3>1, <3>2
  <2>2. k - 1 \in 0 .. n
    OBVIOUS
  <2> QED BY <1>2, <2>1, <2>2
<1> HIDE DEF Below
<1>4. ASSUME NEW k \in 1 .. n
      PROVE  (CHOOSE a \in S : Cardinality(Below(a)) = k - 1) = f[k]
  <2>1. f[k] \in S /\ Cardinality(Below(f[k])) = k - 1
    BY <1>3
  <2>2. ASSUME NEW a \in S, Cardinality(Below(a)) = k - 1  PROVE a = f[k]
    <3>1. PICK i \in 1 .. n : a = f[i]
      OBVIOUS
    <3>2. i - 1 = k - 1
      BY <1>3, <2>2, <3>1
    <3>3. i = k
      BY <3>2
    <3> QED BY <3>1, <3>3
  <2> QED BY <2>1, <2>2
<1>5. n \in 0 .. n
  OBVIOUS
<1> QED BY <1>2, <1>4, <1>5 DEF Below

\* Ranges that describe a set are the FreeRanges of the set.
LEMMA DescriptionIsUnique ==
  ASSUME NEW r, NEW free, Describes(r, free)
  PROVE  r = FreeRanges(free)
<1> DEFINE n == Len(r)
           starts == {a \in free : a - 1 \notin free}
           ends   == {b + 1 : b \in {c \in free : c + 1 \notin free}}
           Nth(set, i) == CHOOSE a \in set : Cardinality({b \in set : b < a}) = i - 1
           f == [i \in 1 .. n |-> r[i].offset]
           g == [i \in 1 .. n |-> End(r[i])]
<1>1. /\ DOMAIN r = 1 .. n /\ n \in Nat /\ r = [i \in 1 .. n |-> r[i]]
      /\ \A i \in DOMAIN r : /\ r[i].offset \in Nat /\ End(r[i]) \in Nat
                             /\ r[i].offset < End(r[i]) /\ End(r[i]) - r[i].offset = r[i].length
                             /\ r[i] = [offset |-> r[i].offset, length |-> r[i].length]
      /\ \A i, j \in DOMAIN r : i < j => End(r[i]) < r[j].offset
      /\ \A m \in free : m \in Nat /\ \E i \in DOMAIN r : r[i].offset <= m /\ m < End(r[i])
      /\ \A m \in Nat : (\E i \in DOMAIN r : r[i].offset <= m /\ m < End(r[i])) => m \in free
  BY DescribedRanges
<1>2. \A i \in DOMAIN r : /\ End(r[i]) \notin free /\ r[i].offset - 1 \notin free
                          /\ r[i].offset \in free /\ End(r[i]) - 1 \in free
  BY EdgesAreNotFree
<1> HIDE DEF n
<1>3. starts = {f[i] : i \in 1 .. n}
  <2>1. ASSUME NEW a \in starts  PROVE a \in {f[i] : i \in 1 .. n}
    <3>1. PICK i \in DOMAIN r : r[i].offset <= a /\ a < End(r[i])
      BY <1>1
    <3>2. a = r[i].offset
      <4>1. a \in Nat /\ r[i].offset \in Nat /\ End(r[i]) \in Nat
        BY <1>1
      <4>2. CASE a > r[i].offset
        <5>1. a - 1 \in Nat /\ r[i].offset <= a - 1 /\ a - 1 < End(r[i])
          BY <3>1, <4>1, <4>2
        <5> QED BY <1>1, <5>1
      <4> QED BY <3>1, <4>1, <4>2
    <3> QED BY <1>1, <3>2
  <2>2. ASSUME NEW i \in 1 .. n  PROVE f[i] \in starts
    BY <1>1, <1>2
  <2> QED BY <2>1, <2>2
<1>4. ends = {g[i] : i \in 1 .. n}
  <2>1. ASSUME NEW e \in ends  PROVE e \in {g[i] : i \in 1 .. n}
    <3>1. PICK b \in free : b + 1 \notin free /\ e = b + 1
      OBVIOUS
    <3>2. PICK i \in DOMAIN r : r[i].offset <= b /\ b < End(r[i])
      BY <1>1
    <3>3. b \in Nat /\ r[i].offset \in Nat /\ End(r[i]) \in Nat
      BY <1>1
    <3>4. b + 1 = End(r[i])
      <4>1. CASE b + 1 < End(r[i])
        <5>1. b + 1 \in Nat /\ r[i].offset <= b + 1
          BY <3>2, <3>3
        <5> QED BY <1>1, <3>1, <4>1, <5>1
      <4> QED BY <3>2, <3>3, <4>1
    <3> QED BY <1>1, <3>1, <3>4
  <2>2. ASSUME NEW i \in 1 .. n  PROVE g[i] \in ends
    <3>1. End(r[i]) - 1 \in free /\ End(r[i]) - 1 + 1 = End(r[i]) /\ End(r[i]) \notin free
      BY <1>1, <1>2
    <3> QED BY <3>1
  <2> QED BY <2>1, <2>2
<1>5. Cardinality(starts) = n /\ \A k \in 1 .. n : Nth(starts, k) = r[k].offset
  <2>1. /\ DOMAIN f = 1 .. n /\ (\A i \in 1 .. n : f[i] \in Nat)
        /\ \A i, j \in 1 .. n : i < j => f[i] < f[j]
    BY <1>1
  <2>2. \A k \in 1 .. n : f[k] = r[k].offset
    OBVIOUS
  <2>a. n \in Nat
    BY <1>1
  <2> HIDE DEF f, starts
  <2>3. LET S == {f[i] : i \in 1 .. n} IN
        /\ Cardinality(S) = n
        /\ \A k \in 1 .. n : (CHOOSE a \in S : Cardinality({b \in S : b < a}) = k - 1) = f[k]
    BY ONLY <2>a, <2>1, Increasing
  <2> QED BY <1>3, <2>2, <2>3
<1>6. \A k \in 1 .. n : Nth(ends, k) = End(r[k])
  <2>1. /\ DOMAIN g = 1 .. n /\ (\A i \in 1 .. n : g[i] \in Nat)
        /\ \A i, j \in 1 .. n : i < j => g[i] < g[j]
    BY <1>1
  <2>2. \A k \in 1 .. n : g[k] = End(r[k])
    OBVIOUS
  <2>a. n \in Nat
    BY <1>1
  <2> HIDE DEF g, ends
  <2>3. LET S == {g[i] : i \in 1 .. n} IN
        /\ Cardinality(S) = n
        /\ \A k \in 1 .. n : (CHOOSE a \in S : Cardinality({b \in S : b < a}) = k - 1) = g[k]
    BY ONLY <2>a, <2>1, Increasing
  <2> QED BY <1>4, <2>2, <2>3
<1>7. FreeRanges(free) = [i \in 1 .. Cardinality(starts) |->
                            [offset |-> Nth(starts, i), length |-> Nth(ends, i) - Nth(starts, i)]]
  BY DEF FreeRanges
<1> HIDE DEF starts, ends, Nth
<1>8. FreeRanges(free) = [i \in 1 .. n |-> [offset |-> r[i].offset, length |-> End(r[i]) - r[i].offset]]
  BY <1>5, <1>6, <1>7
<1>9. \A i \in 1 .. n : r[i] = [offset |-> r[i].offset, length |-> End(r[i]) - r[i].offset]
  BY <1>1
<1> QED BY <1>1, <1>8, <1>9

LEMMA PartDescribed ==
  ASSUME NEW r, NEW free, Describes(r, free), NEW m \in Int, NEW n \in Int, 1 <= m, n <= Len(r), m <= n + 1
  PROVE  Describes(SubSeq(r, m, n), {x \in Nat : \E j \in m .. n : InRange(r[j], x)})
<1> DEFINE s == SubSeq(r, m, n)
<1>0. IsSeq(r)
  BY DEF Describes
<1>1. /\ IsSeq(s) /\ DOMAIN s = 1 .. (n - m + 1)
      /\ \A i \in 1 .. (n - m + 1) : s[i] = r[m + i - 1]
  BY ONLY <1>0, m \in Int, n \in Int, 1 <= m, n <= Len(r), m <= n + 1, SubSeqElements
<1> HIDE DEF s
<1>2. DOMAIN r = 1 .. Len(r) /\ Len(r) \in Nat
  BY DescribedRanges
<1>3. \A i \in DOMAIN s : m + i - 1 \in m .. n /\ m + i - 1 \in DOMAIN r /\ s[i] = r[m + i - 1]
  BY <1>1, <1>2
<1>4. \A i \in DOMAIN s : s[i] \in [offset : Nat, length : Nat \ {0}]
  BY <1>3 DEF Describes
<1>5. \A i, j \in DOMAIN s : i < j => End(s[i]) < s[j].offset
  <2> TAKE i, j \in DOMAIN s
  <2>1. i < j => m + i - 1 < m + j - 1
    BY <1>1
  <2> QED BY <1>3, <2>1 DEF Describes
<1>6. {x \in Nat : \E j \in m .. n : InRange(r[j], x)} = {x \in Nat : \E i \in DOMAIN s : InRange(s[i], x)}
  <2>1. ASSUME NEW j \in m .. n  PROVE \E i \in DOMAIN s : s[i] = r[j]
    <3>1. j - m + 1 \in DOMAIN s /\ m + (j - m + 1) - 1 = j
      BY <1>1
    <3> QED BY <1>3, <3>1
  <2> QED BY <1>3, <2>1
<1>7. Describes(s, {x \in Nat : \E j \in m .. n : InRange(r[j], x)})
  BY <1>1, <1>4, <1>5, <1>6 DEF Describes
<1> QED BY <1>7 DEF s

LEMMA PartRanges ==
  ASSUME NEW r, IsSeq(r), NEW m \in Int, NEW n \in Int, 1 <= m, n <= Len(r), m <= n + 1,
         NEW i \in DOMAIN SubSeq(r, m, n)
  PROVE  \E j \in m .. n : j \in DOMAIN r /\ SubSeq(r, m, n)[i] = r[j]
<1>1. /\ DOMAIN SubSeq(r, m, n) = 1 .. (n - m + 1)
      /\ \A k \in 1 .. (n - m + 1) : SubSeq(r, m, n)[k] = r[m + k - 1]
  BY SubSeqElements
<1>2. DOMAIN r = 1 .. Len(r) /\ Len(r) \in Nat
  BY AppendElements
<1>3. m + i - 1 \in m .. n /\ m + i - 1 \in DOMAIN r /\ SubSeq(r, m, n)[i] = r[m + i - 1]
  BY <1>1, <1>2
<1> QED BY <1>3

LEMMA ConcatRanges ==
  ASSUME NEW s, IsSeq(s), NEW t, IsSeq(t), NEW k \in DOMAIN (s \o t)
  PROVE  (\E i \in DOMAIN s : (s \o t)[k] = s[i]) \/ (\E j \in DOMAIN t : (s \o t)[k] = t[j])
<1>1. \/ k \in DOMAIN s /\ (s \o t)[k] = s[k]
      \/ k - Len(s) \in DOMAIN t /\ (s \o t)[k] = t[k - Len(s)]
  BY ONLY IsSeq(s), IsSeq(t), k \in DOMAIN (s \o t), ConcatElements
<1> QED BY <1>1

LEMMA ConcatDescribed ==
  ASSUME NEW r, NEW F, Describes(r, F), NEW s, NEW G, Describes(s, G),
         \A i \in DOMAIN r : \A j \in DOMAIN s : End(r[i]) < s[j].offset
  PROVE  Describes(r \o s, F \cup G)
<1> DEFINE c == r \o s
<1>1. /\ IsSeq(c) /\ Len(r) \in Nat /\ Len(s) \in Nat
      /\ DOMAIN r = 1 .. Len(r) /\ DOMAIN s = 1 .. Len(s)
      /\ DOMAIN c = 1 .. (Len(r) + Len(s))
      /\ \A i \in 1 .. Len(r) : c[i] = r[i]
      /\ \A i \in 1 .. Len(s) : c[Len(r) + i] = s[i]
  BY ConcatElements DEF Describes
<1> HIDE DEF c
<1>2. ASSUME NEW k \in DOMAIN c
      PROVE  \/ k \in DOMAIN r /\ c[k] = r[k]
             \/ k - Len(r) \in DOMAIN s /\ c[k] = s[k - Len(r)] /\ k > Len(r)
  <2>1. CASE k <= Len(r)
    BY <1>1, <2>1
  <2>2. CASE k > Len(r)
    <3>1. k - Len(r) \in 1 .. Len(s) /\ Len(r) + (k - Len(r)) = k
      BY <1>1, <2>2
    <3> QED BY <1>1, <2>2, <3>1
  <2> QED BY <1>1, <2>1, <2>2
<1>3. \A k \in DOMAIN c : c[k] \in [offset : Nat, length : Nat \ {0}]
  BY <1>2 DEF Describes
<1>4. ASSUME NEW i \in DOMAIN c, NEW j \in DOMAIN c, i < j  PROVE End(c[i]) < c[j].offset
  <2>1. CASE i \in DOMAIN r /\ c[i] = r[i] /\ j \in DOMAIN r /\ c[j] = r[j]
    BY <1>4, <2>1 DEF Describes
  <2>2. CASE i \in DOMAIN r /\ c[i] = r[i] /\ j - Len(r) \in DOMAIN s /\ c[j] = s[j - Len(r)]
    BY <2>2
  <2>3. CASE /\ i - Len(r) \in DOMAIN s /\ c[i] = s[i - Len(r)]
             /\ j - Len(r) \in DOMAIN s /\ c[j] = s[j - Len(r)]
    <3>1. i - Len(r) < j - Len(r)
      BY <1>1, <1>4
    <3> QED BY <2>3, <3>1 DEF Describes
  <2>4. CASE i > Len(r) /\ j \in DOMAIN r
    BY <1>1, <1>4, <2>4
  <2> QED BY <1>2, <2>1, <2>2, <2>3, <2>4
<1>5. F \cup G = {m \in Nat : \E k \in DOMAIN c : InRange(c[k], m)}
  <2>1. ASSUME NEW i \in DOMAIN r  PROVE \E k \in DOMAIN c : c[k] = r[i]
    BY <1>1
  <2>2. ASSUME NEW j \in DOMAIN s  PROVE \E k \in DOMAIN c : c[k] = s[j]
    <3>1. Len(r) + j \in DOMAIN c
      BY <1>1
    <3> QED BY <1>1, <3>1
  <2> QED BY <1>2, <2>1, <2>2 DEF Describes
<1>6. Describes(c, F \cup G)
  BY <1>1, <1>3, <1>4, <1>5 DEF Describes
<1> QED BY <1>6 DEF c

LEMMA PieceDescribed ==
  ASSUME NEW first \in Nat, NEW last \in Nat, first <= last
  PROVE  /\ Describes(Piece(first, last), first .. last - 1)
         /\ \A i \in DOMAIN Piece(first, last) :
              Piece(first, last)[i].offset = first /\ End(Piece(first, last)[i]) = last /\ first < last
<1> DEFINE p == Piece(first, last)
<1>1. CASE first = last
  <2>1. p = <<>> /\ first .. last - 1 = {} /\ IsSeq(<<>>) /\ DOMAIN <<>> = {}
    BY <1>1 DEF Piece, IsSeq
  <2> QED BY <2>1 DEF Describes
<1>2. CASE first # last
  <2> DEFINE e == [offset |-> first, length |-> last - first]
  <2>1. /\ p = <<e>> /\ IsSeq(<<e>>) /\ DOMAIN <<e>> = {1} /\ <<e>>[1] = e
        /\ e \in [offset : Nat, length : Nat \ {0}] /\ e.offset = first /\ End(e) = last
    <3>1. e \in [offset : Nat, length : Nat \ {0}] /\ e.offset = first /\ End(e) = last
      BY <1>2 DEF End
    <3>2. p = <<e>>
      BY <1>2 DEF Piece
    <3> HIDE DEF e, p
    <3>3. <<e>> \in Seq({e}) /\ DOMAIN <<e>> = {1} /\ <<e>>[1] = e
      OBVIOUS
    <3> QED BY <3>1, <3>2, <3>3 DEF IsSeq
  <2> HIDE DEF e
  <2>2. first .. last - 1 = {m \in Nat : \E i \in DOMAIN <<e>> : InRange(<<e>>[i], m)}
    BY <2>1 DEF InRange
  <2>3. \A i, j \in DOMAIN <<e>> : ~(i < j)
    BY <2>1
  <2>4. Describes(<<e>>, first .. last - 1)
    BY <2>1, <2>2, <2>3 DEF Describes
  <2> QED BY <1>2, <2>1, <2>4
<1> QED BY <1>1, <1>2

LEMMA AlignsDown ==
  ASSUME NEW n \in Nat, NEW alignment \in Nat \ {0}
  PROVE  /\ AlignUp(n, alignment) % alignment = 0 /\ AlignUp(n, alignment) \in Nat /\ AlignUp(n, alignment) >= n
         /\ \A o \in Nat : o % alignment = 0 /\ o >= n => AlignUp(n, alignment) <= o
<1> DEFINE d == (n + alignment - 1) \div alignment
<1>1. /\ d \in Int /\ d * alignment <= n + alignment - 1 /\ n + alignment - 1 < d * alignment + alignment
      /\ d >= 0
  OBVIOUS
<1> HIDE DEF d
<1>2. AlignUp(n, alignment) = d * alignment
  BY DEF AlignUp, d
<1>3. (d * alignment) % alignment = 0 /\ d * alignment \in Int
  BY <1>1
<1>4. ASSUME NEW o \in Nat, o % alignment = 0, o >= n  PROVE d * alignment <= o
  <2>1. PICK q \in Int : o = q * alignment
    <3> DEFINE q == o \div alignment
    <3>1. q \in Int
      OBVIOUS
    <3>2. o = alignment * q + (o % alignment)
      OBVIOUS
    <3> HIDE DEF q
    <3>3. o = q * alignment
      BY <1>4, <3>1, <3>2
    <3> QED BY <3>1, <3>3
  <2>2. CASE d > q
    <3>1. d >= q + 1
      BY <1>1, <2>2
    <3>2. d * alignment >= (q + 1) * alignment
      BY <1>1, <3>1
    <3>3. (q + 1) * alignment = q * alignment + alignment
      OBVIOUS
    <3> QED BY <1>1, <1>3, <1>4, <2>1, <3>2, <3>3
  <2>3. CASE d <= q
    <3>1. d * alignment <= q * alignment
      BY <1>1, <2>3
    <3> QED BY <2>1, <3>1
  <2> QED BY <1>1, <2>2, <2>3
<1> QED BY <1>1, <1>2, <1>3, <1>4

\* What is allocated is free and aligned, and the rest stays free.
LEMMA AllocationDescribed ==
  ASSUME NEW r, NEW free, Describes(r, free), NEW size \in Nat \ {0}, NEW alignment \in Nat \ {0},
         PickRange(r, size, alignment) \in Fitting(r, size, alignment)
  PROVE  LET start == PickOffset(r, size, alignment) IN
         /\ start % alignment = 0 /\ start \in Nat /\ Cells(start, size) \subseteq free
         /\ Describes(AllocateRange(r, size, alignment), free \ Cells(start, size))
<1> DEFINE i     == PickRange(r, size, alignment)
           start == PickOffset(r, size, alignment)
           off   == r[i].offset
           last  == End(r[i])
           A     == SubSeq(r, 1, i - 1)
           P     == Piece(off, start)
           Q     == Piece(start + size, last)
           B     == SubSeq(r, i + 1, Len(r))
           FA    == {x \in Nat : \E j \in 1 .. i - 1 : InRange(r[j], x)}
           FB    == {x \in Nat : \E j \in i + 1 .. Len(r) : InRange(r[j], x)}
<1>1. /\ DOMAIN r = 1 .. Len(r) /\ Len(r) \in Nat
      /\ \A k \in DOMAIN r : r[k].offset \in Nat /\ End(r[k]) \in Nat /\ r[k].offset < End(r[k])
      /\ \A k, j \in DOMAIN r : k < j => End(r[k]) < r[j].offset
      /\ \A m \in free : m \in Nat /\ \E k \in DOMAIN r : r[k].offset <= m /\ m < End(r[k])
      /\ \A m \in Nat : (\E k \in DOMAIN r : r[k].offset <= m /\ m < End(r[k])) => m \in free
  BY DescribedRanges
<1>2. i \in DOMAIN r /\ AlignUp(off, alignment) + size <= last /\ start = AlignUp(off, alignment)
  BY DEF Fitting, PickOffset
<1>3. AllocateRange(r, size, alignment) = A \o P \o Q \o B
  BY DEF AllocateRange
<1> HIDE DEF i
<1>4. off \in Nat /\ last \in Nat
  BY <1>1, <1>2
<1> HIDE DEF start
<1>5. start \in Nat /\ start >= off /\ start % alignment = 0 /\ start + size <= last
  BY <1>2, <1>4, AlignsDown
<1>6. \A x \in off .. last - 1 : x \in free
  BY <1>1, <1>2, <1>4
<1>7. Cells(start, size) \subseteq free
  BY <1>4, <1>5, <1>6 DEF Cells
<1>8. /\ Describes(A, FA) /\ \A k \in DOMAIN A : \E j \in 1 .. i - 1 : j \in DOMAIN r /\ A[k] = r[j]
  <2>1. PICK n \in Int : n = i - 1
    BY <1>1, <1>2
  <2>2. 1 \in Int /\ 1 <= 1 /\ n <= Len(r) /\ 1 <= n + 1 /\ IsSeq(r) /\ Describes(r, free)
    BY <1>1, <1>2, <2>1 DEF Describes
  <2>3. Describes(SubSeq(r, 1, n), {x \in Nat : \E j \in 1 .. n : InRange(r[j], x)})
    BY ONLY <2>2, n \in Int, PartDescribed
  <2>4. ASSUME NEW k \in DOMAIN SubSeq(r, 1, n)
        PROVE  \E j \in 1 .. n : j \in DOMAIN r /\ SubSeq(r, 1, n)[k] = r[j]
    BY ONLY <2>2, n \in Int, k \in DOMAIN SubSeq(r, 1, n), PartRanges
  <2> QED BY <2>1, <2>3, <2>4
<1>9. /\ Describes(B, FB) /\ \A k \in DOMAIN B : \E j \in i + 1 .. Len(r) : j \in DOMAIN r /\ B[k] = r[j]
  <2>1. i + 1 \in Int /\ Len(r) \in Int
    BY <1>1, <1>2
  <2>a. PICK m \in Int : m = i + 1
    BY <2>1
  <2>b. PICK n \in Int : n = Len(r)
    BY <2>1
  <2>2. 1 <= m /\ n <= Len(r) /\ m <= n + 1 /\ IsSeq(r) /\ Describes(r, free)
    BY <1>1, <1>2, <2>a, <2>b DEF Describes
  <2>3. Describes(SubSeq(r, m, n), {x \in Nat : \E j \in m .. n : InRange(r[j], x)})
    BY ONLY <2>2, m \in Int, n \in Int, PartDescribed
  <2>4. ASSUME NEW k \in DOMAIN SubSeq(r, m, n)
        PROVE  \E j \in m .. n : j \in DOMAIN r /\ SubSeq(r, m, n)[k] = r[j]
    BY ONLY <2>2, m \in Int, n \in Int, k \in DOMAIN SubSeq(r, m, n), PartRanges
  <2> QED BY <2>a, <2>b, <2>3, <2>4
<1>10. /\ Describes(P, off .. start - 1)
       /\ \A k \in DOMAIN P : P[k].offset = off /\ End(P[k]) = start /\ off < start
  BY <1>4, <1>5, PieceDescribed
<1>11. /\ Describes(Q, start + size .. last - 1)
       /\ \A k \in DOMAIN Q : Q[k].offset = start + size /\ End(Q[k]) = last /\ start + size < last
  <2>1. start + size \in Nat /\ last \in Nat /\ start + size <= last
    BY <1>4, <1>5
  <2> HIDE DEF last, Q
  <2> QED BY <2>1, PieceDescribed DEF Q
<1> HIDE DEF A, P, Q, B, FA, FB
<1>12. \A k \in DOMAIN A : End(A[k]) < off /\ End(A[k]) \in Nat
  BY <1>1, <1>2, <1>8
<1>13. \A k \in DOMAIN B : B[k].offset > last /\ B[k].offset \in Nat
  BY <1>1, <1>2, <1>9
<1> HIDE DEF off, last
<1>14. /\ Describes(A \o P, FA \cup off .. start - 1)
       /\ \A k \in DOMAIN (A \o P) : End((A \o P)[k]) <= start /\ End((A \o P)[k]) \in Nat
  <2>1. \A k \in DOMAIN A : \A j \in DOMAIN P : End(A[k]) < P[j].offset
    BY <1>10, <1>12
  <2>2. /\ Describes(A \o P, FA \cup off .. start - 1)
        /\ \A k \in DOMAIN (A \o P) : \/ \E j \in DOMAIN A : (A \o P)[k] = A[j]
                                      \/ \E j \in DOMAIN P : (A \o P)[k] = P[j]
    <3> DEFINE GP == off .. start - 1
    <3>1. Describes(A, FA) /\ Describes(P, GP)
      BY <1>8, <1>10
    <3> HIDE DEF GP
    <3>2. Describes(A \o P, FA \cup GP)
      BY ONLY <2>1, <3>1, ConcatDescribed
    <3>3. IsSeq(A) /\ IsSeq(P)
      BY <3>1 DEF Describes
    <3>4. ASSUME NEW k \in DOMAIN (A \o P)
          PROVE  (\E j \in DOMAIN A : (A \o P)[k] = A[j]) \/ (\E j \in DOMAIN P : (A \o P)[k] = P[j])
      BY ONLY <3>3, k \in DOMAIN (A \o P), ConcatRanges
    <3> QED BY <3>2, <3>4 DEF GP
  <2>3. /\ \A j \in DOMAIN A : End(A[j]) <= start /\ End(A[j]) \in Nat
        /\ \A j \in DOMAIN P : End(P[j]) = start /\ start \in Nat
    BY <1>4, <1>5, <1>10, <1>12
  <2>4. \A k \in DOMAIN (A \o P) : End((A \o P)[k]) <= start /\ End((A \o P)[k]) \in Nat
    BY ONLY <2>2, <2>3
  <2> QED BY <2>2, <2>4
<1>15. /\ Describes(A \o P \o Q, FA \cup off .. start - 1 \cup start + size .. last - 1)
       /\ \A k \in DOMAIN (A \o P \o Q) : End((A \o P \o Q)[k]) <= last
  <2> DEFINE AP == A \o P
             FP == FA \cup off .. start - 1
  <2>0. Describes(AP, FP) /\ \A k \in DOMAIN AP : End(AP[k]) <= start /\ End(AP[k]) \in Nat
    BY <1>14
  <2> HIDE DEF AP, FP
  <2>1. \A k \in DOMAIN AP : \A j \in DOMAIN Q : End(AP[k]) < Q[j].offset
    BY <1>5, <1>11, <2>0
  <2>2. /\ Describes(AP \o Q, FP \cup start + size .. last - 1)
        /\ \A k \in DOMAIN (AP \o Q) : \/ \E j \in DOMAIN AP : (AP \o Q)[k] = AP[j]
                                       \/ \E j \in DOMAIN Q : (AP \o Q)[k] = Q[j]
    <3> DEFINE GQ == start + size .. last - 1
    <3>1. Describes(AP, FP) /\ Describes(Q, GQ)
      BY <1>11, <2>0
    <3> HIDE DEF GQ
    <3>2. Describes(AP \o Q, FP \cup GQ)
      BY ONLY <2>1, <3>1, ConcatDescribed
    <3>3. IsSeq(AP) /\ IsSeq(Q)
      BY <3>1 DEF Describes
    <3>4. ASSUME NEW k \in DOMAIN (AP \o Q)
          PROVE  (\E j \in DOMAIN AP : (AP \o Q)[k] = AP[j]) \/ (\E j \in DOMAIN Q : (AP \o Q)[k] = Q[j])
      BY ONLY <3>3, k \in DOMAIN (AP \o Q), ConcatRanges
    <3> QED BY <3>2, <3>4 DEF GQ
  <2>3. ASSUME NEW k \in DOMAIN (AP \o Q)  PROVE End((AP \o Q)[k]) <= last
    <3>1. CASE \E j \in DOMAIN AP : (AP \o Q)[k] = AP[j]
      <4>1. PICK j \in DOMAIN AP : (AP \o Q)[k] = AP[j]
        BY <3>1
      <4>2. End(AP[j]) <= start /\ End(AP[j]) \in Nat
        BY <2>0
      <4>3. End(AP[j]) <= last
        BY ONLY <1>4, <1>5, <4>2, size \in Nat \ {0}
      <4> QED BY <4>1, <4>3
    <3>2. CASE \E j \in DOMAIN Q : (AP \o Q)[k] = Q[j]
      BY <1>4, <1>11, <3>2
    <3> QED BY <2>2, <3>1, <3>2
  <2> QED BY <2>2, <2>3 DEF AP, FP
<1>16. Describes(A \o P \o Q \o B, FA \cup off .. start - 1 \cup start + size .. last - 1 \cup FB)
  <2> DEFINE AQ == A \o P \o Q
             FQ == FA \cup off .. start - 1 \cup start + size .. last - 1
  <2>0. Describes(AQ, FQ) /\ \A k \in DOMAIN AQ : End(AQ[k]) <= last
    BY <1>15
  <2> HIDE DEF AQ, FQ
  <2>a. \A k \in DOMAIN AQ : End(AQ[k]) \in Nat
    BY ONLY <2>0, DescribedRanges
  <2>1. \A k \in DOMAIN AQ : \A j \in DOMAIN B : End(AQ[k]) < B[j].offset
    BY <1>4, <1>13, <2>0, <2>a
  <2>2. Describes(AQ \o B, FQ \cup FB)
    BY <1>9, <2>0, <2>1, ConcatDescribed
  <2> QED BY <2>2 DEF AQ, FQ
<1>17. FA \cup off .. start - 1 \cup start + size .. last - 1 \cup FB = free \ Cells(start, size)
  <2>1. ASSUME NEW x \in Nat, NEW k \in DOMAIN r, InRange(r[k], x)
        PROVE  \/ x \in FA /\ x < off
               \/ x \in off .. last - 1
               \/ x \in FB /\ x > last
    <3>1. k < i \/ k = i \/ i < k
      BY <1>1, <1>2
    <3>2. CASE k < i
      <4>1. k \in 1 .. i - 1 /\ End(r[k]) < off
        BY <1>1, <1>2, <3>2 DEF off
      <4> QED BY <1>1, <1>4, <2>1, <4>1 DEF FA, InRange
    <3>3. CASE k = i
      BY <1>1, <1>4, <2>1, <3>3 DEF InRange, off, last
    <3>4. CASE i < k
      <4>1. k \in i + 1 .. Len(r) /\ last < r[k].offset
        BY <1>1, <1>2, <3>4 DEF last
      <4> QED BY <1>1, <1>4, <2>1, <4>1 DEF FB, InRange
    <3> QED BY <3>1, <3>2, <3>3, <3>4
  <2>2. ASSUME NEW x \in FA  PROVE x \in free /\ x < off
    <3>1. PICK k \in 1 .. i - 1 : InRange(r[k], x) /\ x \in Nat
      BY DEF FA
    <3>2. k \in DOMAIN r /\ k < i
      BY <1>1, <1>2
    <3>3. End(r[k]) < off
      BY <1>1, <1>2, <3>2 DEF off
    <3> QED BY <1>1, <1>4, <3>1, <3>2, <3>3 DEF InRange
  <2>3. ASSUME NEW x \in FB  PROVE x \in free /\ x > last
    <3>1. PICK k \in i + 1 .. Len(r) : InRange(r[k], x) /\ x \in Nat
      BY DEF FB
    <3>2. k \in DOMAIN r /\ last < r[k].offset
      BY <1>1, <1>2 DEF last
    <3> QED BY <1>1, <1>4, <3>1, <3>2 DEF InRange
  <2>4. ASSUME NEW x \in free \ Cells(start, size)
        PROVE  x \in FA \cup off .. start - 1 \cup start + size .. last - 1 \cup FB
    <3>1. x \in Nat /\ x \notin start .. start + size - 1 /\ \E k \in DOMAIN r : InRange(r[k], x)
      BY <1>1 DEF Cells, InRange
    <3>2. x \in FA \/ x \in off .. last - 1 \/ x \in FB
      BY <2>1, <3>1
    <3> QED BY <1>4, <1>5, <3>1, <3>2
  <2>5. off .. start - 1 \cup start + size .. last - 1 \subseteq free \ Cells(start, size)
    <3>1. ASSUME NEW x \in off .. start - 1 \cup start + size .. last - 1
          PROVE  x \in off .. last - 1 /\ x \notin start .. start + size - 1
      BY <1>4, <1>5
    <3> QED BY <1>6, <3>1 DEF Cells
  <2>6. FA \cup FB \subseteq free \ Cells(start, size)
    <3>1. ASSUME NEW x \in FA \cup FB  PROVE x \in free /\ x \notin start .. start + size - 1
      BY <1>1, <1>4, <1>5, <2>2, <2>3
    <3> QED BY <3>1 DEF Cells
  <2> QED BY <2>4, <2>5, <2>6
<1> QED BY <1>3, <1>5, <1>7, <1>16, <1>17 DEF start

LEMMA SetOfBelow ==
  ASSUME NEW r, NEW free, Describes(r, free), NEW start \in Nat
  PROVE  LET c == FindRange(r, start) - 1 IN
         /\ c \in 0 .. Len(r)
         /\ \A k \in DOMAIN r : r[k].offset <= start <=> k <= c
<1> DEFINE I == {k \in DOMAIN r : r[k].offset <= start}
<1>1. /\ DOMAIN r = 1 .. Len(r) /\ Len(r) \in Nat
      /\ \A k \in DOMAIN r : r[k].offset \in Nat /\ End(r[k]) \in Nat /\ r[k].offset < End(r[k])
      /\ \A k, j \in DOMAIN r : k < j => End(r[k]) < r[j].offset
  BY DescribedRanges
<1>2. \A k, j \in DOMAIN r : k < j => r[k].offset < r[j].offset
  BY <1>1
<1>3. PICK c \in 0 .. Len(r) : I = 1 .. c
  <2>1. CASE I = {}
    <3>1. 0 \in 0 .. Len(r) /\ I = 1 .. 0
      BY <1>1, <2>1
    <3> QED BY <3>1
  <2>2. CASE I # {}
    <3>1. I \in SUBSET (0 .. Len(r))
      BY <1>1
    <3> HIDE DEF I
    <3>2. Max(I) \in I /\ \A y \in I : y <= Max(I)
      BY ONLY <1>1, <2>2, <3>1, MaxOfBounded
    <3> DEFINE c == Max(I)
    <3>3. c \in I /\ \A y \in I : y <= c
      BY <3>2
    <3> HIDE DEF c
    <3>4. c \in DOMAIN r /\ r[c].offset <= start
      BY <3>3 DEF I
    <3>5. ASSUME NEW k \in 1 .. c  PROVE k \in I
      <4>1. k \in DOMAIN r /\ (k < c \/ k = c)
        BY <1>1, <3>4
      <4> QED BY <1>1, <1>2, <3>4, <4>1 DEF I
    <3>6. I \subseteq 1 .. c
      BY <1>1, <3>3, <3>4 DEF I
    <3>7. c \in 0 .. Len(r)
      BY ONLY <1>1, <3>4
    <3>8. I = 1 .. c
      BY ONLY <3>5, <3>6
    <3> QED BY <3>7, <3>8
  <2>3. \E c \in 0 .. Len(r) : I = 1 .. c
    BY ONLY <2>1, <2>2
  <2> HIDE DEF I
  <2> QED BY ONLY <2>3
<1>4. Cardinality(I) = c
  <2>1. 1 \in Int /\ c \in Int /\ c >= 0
    BY <1>1
  <2>2. Cardinality(1 .. c) = c
    BY ONLY <2>1, FS_Interval
  <2> HIDE DEF I
  <2> QED BY ONLY <1>3, <2>2
<1>5. FindRange(r, start) = 1 + c
  BY <1>4 DEF FindRange
<1>6. \A k \in DOMAIN r : r[k].offset <= start <=> k <= c
  <2> TAKE k \in DOMAIN r
  <2>1. k \in I <=> k \in 1 .. c
    BY <1>3
  <2>2. k \in 1 .. c <=> k <= c
    BY ONLY <1>1, k \in DOMAIN r, c \in 0 .. Len(r)
  <2> QED BY <2>1, <2>2
<1>7. FindRange(r, start) - 1 = c
  BY <1>5
<1> QED BY <1>3, <1>6, <1>7

\* What is given back is free again, and nothing else changes.
LEMMA FreedDescribed ==
  ASSUME NEW r, NEW free, Describes(r, free), NEW start \in Nat, NEW size \in Nat \ {0},
         Cells(start, size) \cap free = {}
  PROVE  Describes(FreeRange(r, start, size), free \cup Cells(start, size))
<1> DEFINE i     == FindRange(r, start)
           onL   == i > 1 /\ End(r[i - 1]) = start
           onR   == i <= Len(r) /\ r[i].offset = start + size
           first == IF onL THEN r[i - 1].offset ELSE start
           last  == IF onR THEN End(r[i]) ELSE start + size
           l     == IF onL THEN i - 2 ELSE i - 1
           h     == IF onR THEN i + 1 ELSE i
           A     == SubSeq(r, 1, l)
           P     == <<[offset |-> first, length |-> last - first]>>
           B     == SubSeq(r, h, Len(r))
           FA    == {x \in Nat : \E j \in 1 .. l : InRange(r[j], x)}
           FP    == first .. last - 1
           FB    == {x \in Nat : \E j \in h .. Len(r) : InRange(r[j], x)}
<1>1. /\ DOMAIN r = 1 .. Len(r) /\ Len(r) \in Nat
      /\ \A k \in DOMAIN r : r[k].offset \in Nat /\ End(r[k]) \in Nat /\ r[k].offset < End(r[k])
      /\ \A k, j \in DOMAIN r : k < j => End(r[k]) < r[j].offset
      /\ \A m \in free : m \in Nat /\ \E k \in DOMAIN r : r[k].offset <= m /\ m < End(r[k])
      /\ \A m \in Nat : (\E k \in DOMAIN r : r[k].offset <= m /\ m < End(r[k])) => m \in free
  BY DescribedRanges
<1>2. i \in 1 .. Len(r) + 1 /\ \A k \in DOMAIN r : r[k].offset <= start <=> k < i
  <2>1. /\ i - 1 \in 0 .. Len(r)
        /\ \A k \in DOMAIN r : r[k].offset <= start <=> k <= i - 1
    BY SetOfBelow
  <2>2. i \in Nat
    <3>1. {k \in DOMAIN r : r[k].offset <= start} \in SUBSET (1 .. Len(r))
      BY <1>1
    <3>2. Cardinality({k \in DOMAIN r : r[k].offset <= start}) \in Nat
      BY <1>1, <3>1, IndicesAreFinite
    <3> QED BY <3>2 DEF FindRange
  <2> HIDE DEF i
  <2> QED BY <1>1, <2>1, <2>2
<1>3. FreeRange(r, start, size) = A \o P \o B
  BY DEF FreeRange
<1> HIDE DEF i
\* The cells are between two ranges.
<1>4. \A k \in DOMAIN r : /\ k < i => End(r[k]) <= start
                          /\ k >= i => r[k].offset >= start + size
  <2>1. ASSUME NEW k \in DOMAIN r, k < i  PROVE End(r[k]) <= start
    <3>1. start \notin free
      BY DEF Cells
    <3>2. r[k].offset <= start
      BY <1>2, <2>1
    <3> QED BY <1>1, <3>1, <3>2
  <2>2. ASSUME NEW k \in DOMAIN r, k >= i  PROVE r[k].offset >= start + size
    <3>a. r[k].offset \in Nat /\ r[k].offset \in free
      <4>1. r[k].offset \in Nat /\ End(r[k]) \in Nat /\ r[k].offset < End(r[k])
        BY <1>1
      <4>2. r[k].offset <= r[k].offset
        BY <4>1
      <4> QED BY <1>1, <4>1, <4>2
    <3>b. ~(k < i)
      BY <1>1, <1>2, <2>2
    <3>c. ~(r[k].offset <= start)
      BY <1>2, <3>b
    <3>1. r[k].offset > start /\ r[k].offset \in free /\ r[k].offset \in Nat
      BY ONLY <3>a, <3>c, start \in Nat
    <3>2. r[k].offset \notin start .. start + size - 1
      BY <3>1 DEF Cells
    <3> QED BY ONLY <3>1, <3>2, start \in Nat, size \in Nat \ {0}
  <2> QED BY <2>1, <2>2
<1>5. /\ first \in Nat /\ first <= start
      /\ last \in Nat /\ start + size <= last /\ l \in 0 .. Len(r) /\ h \in 1 .. Len(r) + 1 /\ l < i /\ i <= h
  <2>1. first \in Nat /\ first <= start /\ l \in 0 .. Len(r) /\ l < i
    <3>1. CASE onL
      <4>1. i - 1 \in DOMAIN r /\ l = i - 2 /\ i \in Nat /\ i > 1
        BY <1>1, <1>2, <3>1
      <4>2. r[i - 1].offset \in Nat /\ r[i - 1].offset <= start
        BY <1>1, <1>2, <3>1, <4>1
      <4> QED BY <1>1, <1>2, <3>1, <4>1, <4>2
    <3>2. CASE ~onL
      BY <1>1, <1>2, <3>2
    <3> QED BY <3>1, <3>2
  <2>2. last \in Nat /\ start + size <= last /\ h \in 1 .. Len(r) + 1 /\ i <= h
    <3>1. CASE onR
      <4>1. i \in DOMAIN r /\ h = i + 1 /\ last = End(r[i]) /\ r[i].offset = start + size
        BY <1>1, <1>2, <3>1
      <4> QED BY <1>1, <1>2, <4>1
    <3>2. CASE ~onR
      BY <1>1, <1>2, <3>2
    <3> QED BY <3>1, <3>2
  <2> QED BY <2>1, <2>2
<1>6. \A k \in 1 .. l : k \in DOMAIN r /\ End(r[k]) < first
  <2> TAKE k \in 1 .. l
  <2>1. k \in DOMAIN r /\ k < i /\ i \in Nat
    BY <1>1, <1>2, <1>5
  <2>2. CASE onL
    <3>1. i - 1 \in DOMAIN r /\ k < i - 1 /\ first = r[i - 1].offset
      BY <1>1, <1>2, <2>1, <2>2
    <3> QED BY <1>1, <2>1, <3>1
  <2>3. CASE ~onL /\ k = i - 1
    BY <1>1, <1>4, <2>1, <2>3
  <2>4. CASE ~onL /\ k # i - 1
    <3>1. i - 1 \in DOMAIN r /\ k < i - 1
      BY <1>1, <1>2, <2>1, <2>4
    <3>2. End(r[k]) < r[i - 1].offset
      BY <1>1, <2>1, <3>1
    <3>3. i - 1 < i
      BY <2>1
    <3>4. r[i - 1].offset <= start
      BY <1>2, <3>1, <3>3
    <3>5. End(r[k]) \in Nat /\ r[i - 1].offset \in Nat
      BY <1>1, <2>1, <3>1
    <3>6. first = start
      BY <2>4
    <3>7. End(r[k]) < start
      BY ONLY <3>2, <3>4, <3>5, start \in Nat
    <3> QED BY <2>1, <3>6, <3>7
  <2> QED BY <2>2, <2>3, <2>4
<1>7. \A k \in h .. Len(r) : k \in DOMAIN r /\ r[k].offset > last
  <2> TAKE k \in h .. Len(r)
  <2>1. k \in DOMAIN r /\ k >= i /\ i \in Nat
    BY <1>1, <1>2, <1>5
  <2>2. CASE onR
    <3>1. i \in DOMAIN r /\ i < k /\ last = End(r[i])
      BY <1>1, <1>2, <2>1, <2>2
    <3> QED BY <1>1, <2>1, <3>1
  <2>3. CASE ~onR /\ k = i
    <3>1. r[k].offset >= start + size /\ r[k].offset # start + size /\ last = start + size
      BY <1>1, <1>4, <2>1, <2>3
    <3>2. r[k].offset \in Nat
      BY <1>1, <2>1
    <3>3. r[k].offset > start + size
      BY ONLY <3>1, <3>2, start \in Nat, size \in Nat \ {0}
    <3> QED BY <2>1, <3>1, <3>3
  <2>4. CASE ~onR /\ k # i
    <3>1. i \in DOMAIN r /\ i < k
      BY <1>1, <1>2, <2>1, <2>4
    <3>2. r[i].offset >= start + size
      <4>1. i >= i
        BY <2>1
      <4> QED BY <1>4, <3>1, <4>1
    <3>3. End(r[i]) < r[k].offset
      BY <1>1, <2>1, <3>1
    <3>4. last = start + size
      BY <2>4
    <3>5. r[i].offset \in Nat /\ End(r[i]) \in Nat /\ r[i].offset < End(r[i]) /\ r[k].offset \in Nat
      BY <1>1, <2>1, <3>1
    <3>6. r[k].offset > start + size
      <4> DEFINE x == r[i].offset
                 y == End(r[i])
                 z == r[k].offset
      <4>1. x >= start + size /\ x < y /\ y < z /\ x \in Nat /\ y \in Nat /\ z \in Nat
        BY <3>2, <3>3, <3>5
      <4> HIDE DEF x, y, z
      <4>2. z > start + size
        BY ONLY <4>1, start \in Nat, size \in Nat \ {0}
      <4> QED BY <4>2 DEF z
    <3> QED BY <2>1, <3>4, <3>6
  <2>5. k \in DOMAIN r
    BY <2>1
  <2> HIDE DEF last, onR
  <2>6. r[k].offset > last
    BY ONLY <2>2, <2>3, <2>4
  <2> QED BY ONLY <2>5, <2>6
<1>8. Describes(A, FA) /\ \A k \in DOMAIN A : \E j \in 1 .. l : j \in DOMAIN r /\ A[k] = r[j]
  <2>1. PICK n \in Int : n = l
    BY <1>1, <1>5
  <2>2. 1 \in Int /\ 1 <= 1 /\ n <= Len(r) /\ 1 <= n + 1 /\ IsSeq(r) /\ Describes(r, free)
    BY <1>1, <1>5, <2>1 DEF Describes
  <2>3. Describes(SubSeq(r, 1, n), {x \in Nat : \E j \in 1 .. n : InRange(r[j], x)})
    BY ONLY <2>2, n \in Int, PartDescribed
  <2>4. ASSUME NEW k \in DOMAIN SubSeq(r, 1, n)
        PROVE  \E j \in 1 .. n : j \in DOMAIN r /\ SubSeq(r, 1, n)[k] = r[j]
    BY ONLY <2>2, n \in Int, k \in DOMAIN SubSeq(r, 1, n), PartRanges
  <2> HIDE DEF l
  <2> QED BY <2>1, <2>3, <2>4
<1>9. Describes(B, FB) /\ \A k \in DOMAIN B : \E j \in h .. Len(r) : j \in DOMAIN r /\ B[k] = r[j]
  <2>1. h \in Int /\ Len(r) \in Int
    BY <1>1, <1>5
  <2>a. PICK m \in Int : m = h
    BY <2>1
  <2>b. PICK n \in Int : n = Len(r)
    BY <2>1
  <2>2. 1 <= m /\ n <= Len(r) /\ m <= n + 1 /\ IsSeq(r) /\ Describes(r, free)
    BY <1>1, <1>5, <2>a, <2>b DEF Describes
  <2>3. Describes(SubSeq(r, m, n), {x \in Nat : \E j \in m .. n : InRange(r[j], x)})
    BY ONLY <2>2, m \in Int, n \in Int, PartDescribed
  <2>4. ASSUME NEW k \in DOMAIN SubSeq(r, m, n)
        PROVE  \E j \in m .. n : j \in DOMAIN r /\ SubSeq(r, m, n)[k] = r[j]
    BY ONLY <2>2, m \in Int, n \in Int, k \in DOMAIN SubSeq(r, m, n), PartRanges
  <2> HIDE DEF h
  <2> QED BY <2>a, <2>b, <2>3, <2>4
<1>10. Describes(P, FP) /\ DOMAIN P = {1} /\ P[1].offset = first /\ End(P[1]) = last
  <2>1. first \in Nat /\ last \in Nat /\ first < last
    BY <1>5
  <2> HIDE DEF first, last
  <2>2. P = Piece(first, last)
    BY <2>1 DEF Piece
  <2>3. DOMAIN P = {1} /\ P[1] = [offset |-> first, length |-> last - first] /\ End(P[1]) = last
    BY <2>1 DEF End
  <2>4. Describes(Piece(first, last), first .. last - 1)
    BY <2>1, PieceDescribed
  <2> QED BY <2>2, <2>3, <2>4
<1> DEFINE AP == A \o P
           FAP == FA \cup FP
<1>11. Describes(AP, FAP) /\ \A k \in DOMAIN AP : End(AP[k]) <= last
  <2>1. \A k \in DOMAIN A : End(A[k]) < first /\ End(A[k]) \in Nat
    BY <1>1, <1>6, <1>8
  <2> HIDE DEF A, P, FA, FP, first, last
  <2>2. \A k \in DOMAIN A : \A j \in DOMAIN P : End(A[k]) < P[j].offset
    BY <1>10, <2>1
  <2>3. Describes(A, FA) /\ Describes(P, FP) /\ IsSeq(A) /\ IsSeq(P)
    BY <1>8, <1>10 DEF Describes
  <2>4. Describes(A \o P, FA \cup FP)
    BY ONLY <2>2, <2>3, ConcatDescribed
  <2>5. ASSUME NEW k \in DOMAIN (A \o P)  PROVE End((A \o P)[k]) <= last
    <3>1. (\E j \in DOMAIN A : (A \o P)[k] = A[j]) \/ (\E j \in DOMAIN P : (A \o P)[k] = P[j])
      BY ONLY <2>3, k \in DOMAIN (A \o P), ConcatRanges
    <3>2. /\ \A j \in DOMAIN A : End(A[j]) < first /\ End(A[j]) \in Nat
          /\ \A j \in DOMAIN P : End(P[j]) = last
          /\ first \in Nat /\ last \in Nat /\ first <= last
      BY <1>5, <1>10, <2>1
    <3> QED BY ONLY <3>1, <3>2
  <2> QED BY <2>4, <2>5
<1>12. Describes(AP \o B, FAP \cup FB)
  <2>1. \A j \in DOMAIN B : B[j].offset > last /\ B[j].offset \in Nat
    BY <1>1, <1>7, <1>9
  <2> HIDE DEF AP, FAP, B, FB, last
  <2>2. Describes(AP, FAP) /\ Describes(B, FB)
    BY <1>9, <1>11
  <2>3. \A k \in DOMAIN AP : End(AP[k]) \in Nat
    BY ONLY <2>2, DescribedRanges
  <2>4. \A k \in DOMAIN AP : \A j \in DOMAIN B : End(AP[k]) < B[j].offset
    BY <1>5, <1>11, <2>1, <2>3
  <2> QED BY ONLY <2>2, <2>4, ConcatDescribed
<1>13. FAP \cup FB = free \cup Cells(start, size)
  <2>1. ASSUME NEW x \in free  PROVE x \in FAP \cup FB
    <3>1. PICK k \in DOMAIN r : InRange(r[k], x) /\ x \in Nat
      BY <1>1 DEF InRange
    <3>2. CASE k \in 1 .. l \/ k \in h .. Len(r)
      BY <3>1, <3>2
    <3>3. CASE k \notin 1 .. l /\ k \notin h .. Len(r)
      <4>0. k \in 1 .. Len(r) /\ k > l /\ k < h /\ i \in Nat /\ l \in Nat /\ h \in Nat
        BY <1>1, <1>2, <1>5, <3>3
      <4>1. \/ onL /\ k = i - 1
            \/ onR /\ k = i
        BY <4>0
      <4>2. CASE onL /\ k = i - 1
        <5>1. first = r[k].offset /\ End(r[k]) = start
          BY <4>2
        <5> HIDE DEF first, last
        <5>2. x \in first .. last - 1
          BY <1>1, <1>5, <3>1, <5>1 DEF InRange
        <5> QED BY <5>2
      <4>3. CASE onR /\ k = i
        <5>1. last = End(r[k]) /\ r[k].offset = start + size
          BY <4>3
        <5> HIDE DEF first, last
        <5>2. x \in first .. last - 1
          BY <1>1, <1>5, <3>1, <5>1 DEF InRange
        <5> QED BY <5>2
      <4> QED BY <4>1, <4>2, <4>3
    <3> QED BY <3>2, <3>3
  <2>2. Cells(start, size) \subseteq FP
    <3> HIDE DEF first, last
    <3>1. first \in Nat /\ last \in Nat /\ first <= start /\ start + size <= last
      BY <1>5
    <3>2. start .. start + size - 1 \subseteq first .. last - 1
      BY ONLY <3>1, start \in Nat, size \in Nat \ {0}
    <3> QED BY <3>2 DEF Cells
  <2>3. ASSUME NEW x \in FP  PROVE x \in free \cup Cells(start, size)
    <3>1. first \in Nat /\ last \in Nat /\ x \in first .. last - 1 /\ x \in Nat
      <4>1. first \in Nat /\ last \in Nat
        BY <1>5
      <4> HIDE DEF first, last
      <4> QED BY <4>1
    <3>2. CASE x < start
      <4>1. onL
        BY <3>1, <3>2
      <4>2. i - 1 \in DOMAIN r /\ r[i - 1].offset <= x /\ x < End(r[i - 1])
        BY <1>1, <1>2, <3>1, <3>2, <4>1
      <4> QED BY <1>1, <3>1, <4>2
    <3>3. CASE x >= start + size
      <4>1. onR
        BY <3>1, <3>3
      <4>2. i \in DOMAIN r /\ r[i].offset <= x /\ x < End(r[i])
        BY <1>1, <1>2, <3>1, <3>3, <4>1
      <4> QED BY <1>1, <3>1, <4>2
    <3>4. CASE start <= x /\ x < start + size
      BY <3>1, <3>4 DEF Cells
    <3> QED BY <3>1, <3>2, <3>3, <3>4
  <2>4. FA \cup FB \subseteq free
    <3>1. \A k \in 1 .. l : k \in DOMAIN r
      BY <1>6
    <3>2. \A k \in h .. Len(r) : k \in DOMAIN r
      BY <1>7
    <3> HIDE DEF l, h
    <3> QED BY <1>1, <3>1, <3>2 DEF InRange
  <2> QED BY <2>1, <2>2, <2>3, <2>4
<1> QED BY <1>3, <1>12, <1>13

\* Every set of cells has a description.
LEMMA EverySetIsDescribed ==
  ASSUME NEW size \in Nat, NEW free \in SUBSET (0 .. size - 1)
  PROVE  Describes(FreeRanges(free), free)
<1> DEFINE Part(m) == {x \in free : x < m}
           Bad == {m \in 0 .. size : ~\E r : Describes(r, Part(m))}
<1>0. \A x \in free : x \in Nat /\ x < size
  OBVIOUS
<1>1. Bad = {}
  <2> SUFFICES ASSUME Bad # {} PROVE FALSE
    OBVIOUS
  <2>1. Bad \in SUBSET (0 .. size)
    OBVIOUS
  <2>2. \E m \in Bad : \A k \in Bad : m <= k
    <3> HIDE DEF Bad
    <3> QED BY ONLY <2>1, size \in Nat, Bad # {}, LeastOfBounded
  <2>3. PICK m \in Bad : \A k \in Bad : m <= k
    BY <2>2
  <2>4. m \in 0 .. size /\ ~\E r : Describes(r, Part(m))
    OBVIOUS
  <2>5. CASE m = 0
    <3>1. Part(m) = {}
      <4>1. \A x \in free : ~(x < m)
        BY <1>0, <2>5
      <4> QED BY ONLY <4>1
    <3>2. IsSeq(<<>>) /\ DOMAIN <<>> = {}
      BY DEF IsSeq
    <3>3. Describes(<<>>, {})
      BY <3>2 DEF Describes
    <3> QED BY <2>4, <3>1, <3>3
  <2>6. CASE m # 0
    <3>1. PICK n \in Nat : m = n + 1
      <4>1. m - 1 \in Nat /\ m = (m - 1) + 1
        BY <2>4, <2>6
      <4> QED BY <4>1
    <3>2. n \in 0 .. size /\ n \notin Bad
      <4>1. n \in 0 .. size /\ ~(m <= n)
        BY <2>4, <3>1
      <4> HIDE DEF Bad
      <4> QED BY <2>3, <4>1
    <3>3. PICK r : Describes(r, Part(n))
      BY <3>2
    <3>4. CASE n \in free
      <4>1. 1 \in Nat \ {0} /\ Cells(n, 1) = {n}
        BY DEF Cells
      <4>2. Cells(n, 1) \cap Part(n) = {}
        BY <4>1
      <4>3. Part(m) = Part(n) \cup Cells(n, 1)
        <5>1. \A x \in free : x < m <=> x < n \/ x = n
          BY <1>0, <3>1
        <5> QED BY <3>4, <4>1, <5>1
      <4> HIDE DEF Part
      <4>4. Describes(FreeRange(r, n, 1), Part(n) \cup Cells(n, 1))
        BY ONLY <3>3, n \in Nat, <4>1, <4>2, FreedDescribed
      <4> QED BY <2>4, <4>3, <4>4
    <3>5. CASE n \notin free
      <4>1. Part(m) = Part(n)
        <5>1. \A x \in free : x < m <=> x < n
          BY <1>0, <3>1, <3>5
        <5> QED BY <5>1
      <4> HIDE DEF Part
      <4> QED BY <2>4, <3>3, <4>1
    <3> QED BY <3>4, <3>5
  <2> QED BY <2>5, <2>6
<1>2. size \in 0 .. size /\ Part(size) = free
  <2>1. size \in 0 .. size
    OBVIOUS
  <2>2. Part(size) = free
    BY ONLY <1>0
  <2> QED BY <2>1, <2>2
<1>3. PICK r : Describes(r, Part(size))
  BY <1>1, <1>2
<1>4. Describes(r, free)
  BY <1>2, <1>3
<1>5. r = FreeRanges(free)
  BY ONLY <1>4, DescriptionIsUnique
<1> QED BY <1>4, <1>5

LEMMA PickedFits ==
  ASSUME NEW r, NEW free, Describes(r, free), NEW size, NEW alignment, Fitting(r, size, alignment) # {}
  PROVE  PickRange(r, size, alignment) \in Fitting(r, size, alignment)
<1> DEFINE fits    == Fitting(r, size, alignment)
           exact   == {i \in fits : r[i].length = size}
           longest == {i \in fits : \A j \in fits : r[j].length <= r[i].length}
           picks   == IF exact # {} THEN exact ELSE longest
           lengths == {r[i].length : i \in fits}
           top     == End(r[Len(r)])
<1>1. /\ DOMAIN r = 1 .. Len(r) /\ Len(r) \in Nat
      /\ \A i \in DOMAIN r : /\ r[i].offset \in Nat /\ r[i].length \in Nat \ {0} /\ End(r[i]) \in Nat
                             /\ r[i].offset < End(r[i]) /\ End(r[i]) - r[i].offset = r[i].length
      /\ \A i, j \in DOMAIN r : i < j => End(r[i]) < r[j].offset
  BY DescribedRanges
<1>2. fits \subseteq DOMAIN r
  BY DEF Fitting
<1>a. Len(r) \in DOMAIN r /\ top \in Nat
  BY <1>1, <1>2
<1>3. \A i \in DOMAIN r : r[i].length \in 0 .. top
  <2> TAKE i \in DOMAIN r
  <2>1. i = Len(r) \/ i < Len(r)
    BY <1>1
  <2>2. End(r[i]) <= top
    <3>1. CASE i < Len(r)
      <4>1. End(r[i]) < r[Len(r)].offset
        BY <1>1, <1>a, <3>1
      <4> QED BY <1>1, <1>a, <4>1
    <3> QED BY <1>1, <2>1, <3>1
  <2> HIDE DEF top
  <2> QED BY <1>1, <1>a, <2>2
<1> HIDE DEF fits, top
<1>4. longest # {}
  <2>1. lengths \in SUBSET (0 .. top) /\ lengths # {} /\ top \in Nat
    BY <1>2, <1>3, <1>a DEF fits
  <2> HIDE DEF lengths
  <2>2. Max(lengths) \in lengths /\ \A y \in lengths : y <= Max(lengths)
    BY ONLY <2>1, MaxOfBounded
  <2> USE DEF lengths
  <2>3. PICK i \in fits : r[i].length = Max(lengths)
    BY <2>2
  <2>4. \A j \in fits : r[j].length <= r[i].length
    BY <2>2, <2>3
  <2> QED BY <2>3, <2>4
<1>5. picks \in SUBSET (0 .. Len(r)) /\ picks # {} /\ picks \subseteq fits
  <2>1. picks \subseteq fits /\ picks # {}
    BY <1>4
  <2>2. fits \subseteq 0 .. Len(r)
    BY <1>1, <1>2
  <2> HIDE DEF picks
  <2> QED BY ONLY <2>1, <2>2
<1>6. PickRange(r, size, alignment) = CHOOSE i \in picks : \A j \in picks : i <= j
  BY DEF PickRange, fits
<1> HIDE DEF picks
<1>7. \E i \in picks : \A j \in picks : i <= j
  BY ONLY <1>1, <1>5, LeastOfBounded
<1>8. PickRange(r, size, alignment) \in picks
  BY <1>6, <1>7
<1> QED BY <1>5, <1>8 DEF fits

\* An allocation fails only if no aligned cells are free.
LEMMA FitsIfFree ==
  ASSUME NEW r, NEW free, Describes(r, free), NEW size \in Nat \ {0}, NEW alignment \in Nat \ {0},
         NEW o \in free, o % alignment = 0, Cells(o, size) \subseteq free
  PROVE  Fitting(r, size, alignment) # {}
<1>1. /\ \A k \in DOMAIN r : r[k].offset \in Nat /\ End(r[k]) \in Nat
      /\ \A m \in free : m \in Nat /\ \E k \in DOMAIN r : r[k].offset <= m /\ m < End(r[k])
  BY DescribedRanges
<1>2. PICK i \in DOMAIN r : r[i].offset <= o /\ o < End(r[i])
  BY <1>1
<1>3. o \in Nat /\ r[i].offset \in Nat /\ End(r[i]) \in Nat
  BY <1>1
<1>4. o + size <= End(r[i])
  <2>1. End(r[i]) \notin free
    BY EdgesAreNotFree
  <2>2. End(r[i]) \notin o .. o + size - 1
    BY <2>1 DEF Cells
  <2> QED BY ONLY <1>2, <1>3, <2>2, size \in Nat \ {0}
<1>5. AlignUp(r[i].offset, alignment) <= o /\ AlignUp(r[i].offset, alignment) \in Nat
  <2>1. PICK n \in Nat : n = r[i].offset
    BY <1>3
  <2>2. \A p \in Nat : p % alignment = 0 /\ p >= n => AlignUp(n, alignment) <= p
    BY AlignsDown
  <2>3. AlignUp(n, alignment) \in Nat
    BY AlignsDown
  <2> QED BY <1>2, <1>3, <2>1, <2>2, <2>3
<1>6. i \in Fitting(r, size, alignment)
  <2>1. AlignUp(r[i].offset, alignment) + size <= End(r[i])
    BY ONLY <1>3, <1>4, <1>5, size \in Nat \ {0}
  <2> QED BY <2>1 DEF Fitting
<1> QED BY <1>6

\* In a chunk that is free nothing is allocated.
LEMMA NothingInFreeChunk ==
  ASSUME NEW r, NEW free, Describes(r, free), NEW size \in Nat, IsFree(r, size), free \subseteq 0 .. size - 1
  PROVE  0 .. size - 1 \subseteq free
<1>1. /\ 1 \in DOMAIN r /\ r[1].length = size
      /\ r[1].offset \in Nat /\ End(r[1]) \in Nat /\ End(r[1]) - r[1].offset = size
      /\ \A m \in Nat : (\E k \in DOMAIN r : r[k].offset <= m /\ m < End(r[k])) => m \in free
  BY DescribedRanges DEF IsFree
<1>2. End(r[1]) - 1 \in free
  BY <1>1, EdgesAreNotFree
<1>3. r[1].offset = 0 /\ End(r[1]) = size
  <2>1. End(r[1]) - 1 \in 0 .. size - 1
    BY ONLY <1>2, free \subseteq 0 .. size - 1
  <2> QED BY ONLY <1>1, <2>1, size \in Nat
<1>4. \A m \in 0 .. size - 1 : m \in Nat /\ r[1].offset <= m /\ m < End(r[1])
  BY <1>3
<1> QED BY <1>1, <1>4

\* The allocator is right for chunks of any size (memory.c:1604-1741).
THEOREM AllocatorOk ==
  ASSUME NEW size \in Nat
  PROVE  RangesAreRight(size)
<1> SUFFICES ASSUME NEW free \in SUBSET (0 .. size - 1)
             PROVE  LET ranges == FreeRanges(free) IN
    /\ \A n, alignment \in 1 .. size :
         LET start == PickOffset(ranges, n, alignment) IN
         IF Fitting(ranges, n, alignment) = {}
         THEN \A o \in free : o % alignment = 0 => ~(Cells(o, n) \subseteq free)
         ELSE /\ start % alignment = 0 /\ Cells(start, n) \subseteq free
              /\ AllocateRange(ranges, n, alignment) = FreeRanges(free \ Cells(start, n))
    /\ \A o \in 0 .. size - 1 : \A n \in 1 .. size - o :
         Cells(o, n) \cap free = {} =>
           FreeRange(ranges, o, n) = FreeRanges(free \cup Cells(o, n))
  BY DEF RangesAreRight
<1> DEFINE ranges == FreeRanges(free)
<1>1. Describes(ranges, free)
  BY EverySetIsDescribed
<1> HIDE DEF ranges
<1>2. ASSUME NEW n \in 1 .. size, NEW alignment \in 1 .. size, Fitting(ranges, n, alignment) = {},
             NEW o \in free, o % alignment = 0, Cells(o, n) \subseteq free
      PROVE  FALSE
  <2>1. n \in Nat \ {0} /\ alignment \in Nat \ {0}
    OBVIOUS
  <2>2. Fitting(ranges, n, alignment) # {}
    BY ONLY <1>1, <1>2, <2>1, FitsIfFree
  <2> QED BY <1>2, <2>2
<1>3. ASSUME NEW n \in 1 .. size, NEW alignment \in 1 .. size, Fitting(ranges, n, alignment) # {}
      PROVE  LET start == PickOffset(ranges, n, alignment) IN
             /\ start % alignment = 0 /\ Cells(start, n) \subseteq free
             /\ AllocateRange(ranges, n, alignment) = FreeRanges(free \ Cells(start, n))
  <2> DEFINE start == PickOffset(ranges, n, alignment)
             left  == AllocateRange(ranges, n, alignment)
             rest  == free \ Cells(start, n)
  <2>1. n \in Nat \ {0} /\ alignment \in Nat \ {0}
    OBVIOUS
  <2>2. PickRange(ranges, n, alignment) \in Fitting(ranges, n, alignment)
    BY ONLY <1>1, <1>3, PickedFits
  <2>3. start % alignment = 0 /\ Cells(start, n) \subseteq free /\ Describes(left, rest)
    BY ONLY <1>1, <2>1, <2>2, AllocationDescribed
  <2> HIDE DEF left, rest
  <2>4. left = FreeRanges(rest)
    BY ONLY <2>3, DescriptionIsUnique
  <2> QED BY <2>3, <2>4 DEF left, rest
<1>4. ASSUME NEW o \in 0 .. size - 1, NEW n \in 1 .. size - o, Cells(o, n) \cap free = {}
      PROVE  FreeRange(ranges, o, n) = FreeRanges(free \cup Cells(o, n))
  <2>1. o \in Nat /\ n \in Nat \ {0}
    OBVIOUS
  <2>2. Describes(FreeRange(ranges, o, n), free \cup Cells(o, n))
    BY ONLY <1>1, <1>4, <2>1, FreedDescribed
  <2> QED BY ONLY <2>2, DescriptionIsUnique
<1> QED BY <1>2, <1>3, <1>4 DEF ranges

-----------------------------------------------------------------------------
(* The chunk.                                                              *)

\* Nothing in the chunk moves, nobody comes and nobody leaves.
RangeFrame ==
  UNCHANGED chunkVars /\ \A o \in Objects : pc[o] = "none" <=> pc'[o] = "none"

LEMMA ObjectNames ==
  /\ Chunk \in Objects /\ Chunk \notin Allocs /\ Allocs \subseteq Objects
  /\ Subs \subseteq Allocs /\ Dedicated \subseteq Allocs /\ Subs \cap Dedicated = {}
  /\ \A a \in Allocs : a \in Subs \/ a \in Dedicated
  /\ \A o \in Objects : o = Chunk \/ o \in Allocs
BY NamesAssumption DEF Objects, Allocs

LEMMA RangeFrames ==
  ASSUME SeqInv,
         \/ \E a \in Allocs : \/ FillAllocation(a) \/ ExecuteCommandLists(a) \/ FreeMemory(a)
                              \/ \E q \in Queues : SubmitWork(a, q)
         \/ \E r \in Textures : WriteSubresource(r) \/ ReleaseTexture(r)
         \/ Gpu \/ Flush \/ Track
         \/ \E o \in Objects : CheckDone(o) \/ TakeFromList(o) \/ NotInList(o) \/ Waited(o)
         \/ UNCHANGED vars
  PROVE  RangeFrame
<1>0. pc \in [Objects -> {"none", "taken", "flushes", "live", "check", "search", "blocked", "returns"}]
  BY DEF SeqInv, TypeOK
<1>1. ASSUME NEW a \in Allocs, FillAllocation(a) \/ FreeMemory(a)  PROVE RangeFrame
  BY <1>0, <1>1 DEF FillAllocation, FreeMemory, At, RangeFrame
<1>2. ASSUME NEW a \in Allocs, ExecuteCommandLists(a) \/ \E q \in Queues : SubmitWork(a, q)  PROVE RangeFrame
  BY <1>2 DEF ExecuteCommandLists, SubmitWork, RangeFrame
<1>3. ASSUME NEW r \in Textures, WriteSubresource(r) \/ ReleaseTexture(r)  PROVE RangeFrame
  BY <1>3 DEF WriteSubresource, ReleaseTexture, RangeFrame, objVars
<1>4. ASSUME Gpu \/ Track \/ Submit \/ \E q \in Queues : AddWait(q)  PROVE RangeFrame
  BY <1>4 DEF Gpu, GpuTransfers, GpuWork, Track, TakeBatch, ReleaseTracked, Submit, AddWait, RangeFrame, objVars
<1>5. ASSUME FlushEnds \/ \E recorded \in BOOLEAN : FlushFails(recorded)  PROVE RangeFrame
  BY <1>0, <1>5 DEF FlushEnds, FlushFails, Resume, RangeFrame
<1>6. ASSUME NEW o \in Objects, CheckDone(o) \/ TakeFromList(o) \/ NotInList(o) \/ Waited(o)
      PROVE  RangeFrame
  BY <1>0, <1>6 DEF CheckDone, TakeFromList, NotInList, Waited, At, RangeFrame
<1>7. ASSUME UNCHANGED vars  PROVE RangeFrame
  BY <1>7 DEF vars, objVars, RangeFrame
<1> QED BY <1>1, <1>2, <1>3, <1>4, <1>5, <1>6, <1>7 DEF Flush

\* What a suballocation gets is free, also in a new chunk.
LEMMA SuballocateOk ==
  ASSUME SeqInv, OwnerInv, RangeInv, NEW a \in Allocs, NEW z \in Kinds, Suballocate(a, z)
  PROVE  /\ a \in Subs /\ pc[a] = "none" /\ pc'[Chunk] = "live" /\ pc'[a] # "none"
         /\ \A b \in Allocs \ {a} : pc'[b] = pc[b]
         /\ \A b \in Subs \ {a} : offset'[b] = offset[b]
         /\ offset'[a] \in Nat /\ offset'[a] + SizeOf[a] <= ChunkSize /\ offset'[a] % AlignmentOf[a] = 0
         /\ \A b \in Subs \ {a} : pc[b] # "none" => Apart(offset[b], SizeOf[b], offset'[a], SizeOf[a])
         /\ Describes(free_ranges', Rest \ Cells(offset'[a], SizeOf[a]))
<1> DEFINE ranges == IF pc[Chunk] = "none" THEN <<[offset |-> 0, length |-> ChunkSize]>> ELSE free_ranges
           start  == PickOffset(ranges, SizeOf[a], AlignmentOf[a])
           left   == AllocateRange(ranges, SizeOf[a], AlignmentOf[a])
<1>0. /\ pc \in [Objects -> {"none", "taken", "flushes", "live", "check", "search", "blocked", "returns"}]
      /\ offset \in [Subs -> 0 .. ChunkSize - 1]
  BY DEF SeqInv, TypeOK
<1>1. /\ a \in Subs /\ pc[a] = "none" /\ Fitting(ranges, SizeOf[a], AlignmentOf[a]) # {}
      /\ free_ranges' = left /\ offset' = [offset EXCEPT ![a] = start]
      /\ pc' = [pc EXCEPT ![a] = IF z THEN "taken" ELSE "live", ![Chunk] = "live"]
  BY DEF Suballocate
<1>2. /\ SizeOf[a] \in Nat \ {0} /\ AlignmentOf[a] \in Nat \ {0} /\ ChunkSize \in Nat \ {0}
      /\ \A b \in Subs : SizeOf[b] \in Nat \ {0}
  BY <1>1, SizesAssumption
<1>3. Describes(ranges, Rest)
  <2>1. CASE pc[Chunk] = "none"
    <3>1. \A b \in Subs : pc[b] = "none"
      BY <2>1 DEF OwnerInv
    <3>2. Held = {}
      BY <3>1 DEF Held
    <3>3. Rest = 0 .. ChunkSize - 1
      BY <3>2 DEF Rest
    <3>4. ranges = Piece(0, ChunkSize)
      BY <1>2, <2>1 DEF Piece
    <3>5. Describes(Piece(0, ChunkSize), 0 .. ChunkSize - 1)
      <4>1. 0 \in Nat /\ ChunkSize \in Nat /\ 0 <= ChunkSize
        BY <1>2
      <4> QED BY ONLY <4>1, PieceDescribed
    <3> QED BY <3>3, <3>4, <3>5
  <2>2. CASE pc[Chunk] # "none"
    BY <2>2 DEF RangeInv
  <2> QED BY <2>1, <2>2
<1> HIDE DEF ranges
<1>4. /\ start % AlignmentOf[a] = 0 /\ start \in Nat /\ Cells(start, SizeOf[a]) \subseteq Rest
      /\ Describes(left, Rest \ Cells(start, SizeOf[a]))
  <2>1. SizeOf[a] \in Nat \ {0} /\ AlignmentOf[a] \in Nat \ {0}
    BY <1>2
  <2>2. PickRange(ranges, SizeOf[a], AlignmentOf[a]) \in Fitting(ranges, SizeOf[a], AlignmentOf[a])
    BY ONLY <1>1, <1>3, PickedFits
  <2> QED BY ONLY <1>3, <2>1, <2>2, AllocationDescribed
<1> HIDE DEF start, left
<1>5. /\ offset'[a] = start /\ \A b \in Subs \ {a} : offset'[b] = offset[b]
      /\ pc'[Chunk] = "live" /\ pc'[a] # "none" /\ \A b \in Allocs \ {a} : pc'[b] = pc[b]
  BY <1>0, <1>1, ObjectNames
<1>6. start + SizeOf[a] <= ChunkSize
  <2>1. start + SizeOf[a] - 1 \in Cells(start, SizeOf[a])
    BY <1>2, <1>4 DEF Cells
  <2>2. start + SizeOf[a] - 1 \in 0 .. ChunkSize - 1
    BY <1>4, <2>1 DEF Rest
  <2> QED BY <1>2, <1>4, <2>2
<1>7. ASSUME NEW b \in Subs \ {a}, pc[b] # "none"
      PROVE  Apart(offset[b], SizeOf[b], start, SizeOf[a])
  <2>1. Cells(offset[b], SizeOf[b]) \cap Cells(start, SizeOf[a]) = {}
    <3>1. b \in Held /\ MemoryOf(b) = Cells(offset[b], SizeOf[b])
      BY <1>7 DEF Held, MemoryOf
    <3>2. MemoryOf(b) \cap Rest = {}
      BY <3>1 DEF Rest
    <3> QED BY <1>4, <3>1, <3>2
  <2>2. /\ offset[b] \in Nat /\ SizeOf[b] \in Nat \ {0}
        /\ offset[b] \notin Cells(start, SizeOf[a]) \/ offset[b] \notin Cells(offset[b], SizeOf[b])
        /\ start \notin Cells(start, SizeOf[a]) \/ start \notin Cells(offset[b], SizeOf[b])
    BY <1>0, <1>2, <2>1
  <2>3. SizeOf[a] \in Nat \ {0} /\ start \in Nat
    BY <1>2, <1>4
  <2> QED BY ONLY <2>2, <2>3 DEF Cells, Apart
<1> QED BY <1>1, <1>4, <1>5, <1>6, <1>7

LEMMA RangeInvStep ==
  ASSUME SeqInv, OwnerInv, RangeInv, [Next]_vars
  PROVE  RangeInv'
<1>0. /\ pc \in [Objects -> {"none", "taken", "flushes", "live", "check", "search", "blocked", "returns"}]
      /\ ChunkSize \in Nat \ {0} /\ \A b \in Subs : SizeOf[b] \in Nat \ {0}
  BY SizesAssumption DEF SeqInv, TypeOK
\* Suballocations that nothing happens to.
<1>1. ASSUME free_ranges' = free_ranges, offset' = offset,
             \A o \in Subs \cup {Chunk} : pc'[o] = "none" <=> pc[o] = "none"
      PROVE  RangeInv'
  <2>1. Held' = Held
    BY <1>1 DEF Held
  <2>2. \A a : MemoryOf(a)' = MemoryOf(a)
    BY <1>1 DEF MemoryOf
  <2>3. Rest' = Rest
    BY <2>1, <2>2 DEF Rest
  <2> QED BY <1>1, <2>3 DEF RangeInv
<1>2. ASSUME RangeFrame  PROVE RangeInv'
  BY <1>1, <1>2, ObjectNames DEF RangeFrame, chunkVars
<1>3. ASSUME NEW a \in Allocs, NEW z \in Kinds, Suballocate(a, z)  PROVE RangeInv'
  <2>1. /\ a \in Subs /\ pc[a] = "none" /\ pc'[a] # "none"
        /\ \A b \in Subs \ {a} : pc'[b] = pc[b] /\ offset'[b] = offset[b]
        /\ offset'[a] \in Nat /\ offset'[a] + SizeOf[a] <= ChunkSize /\ offset'[a] % AlignmentOf[a] = 0
        /\ \A b \in Subs \ {a} : pc[b] # "none" => Apart(offset[b], SizeOf[b], offset'[a], SizeOf[a])
        /\ Describes(free_ranges', Rest \ Cells(offset'[a], SizeOf[a]))
    BY <1>3, SuballocateOk, ObjectNames
  <2>2. ASSUME NEW c \in Subs, NEW b \in Subs \ {c}, pc'[b] # "none", pc'[c] # "none"
        PROVE  Apart(offset'[c], SizeOf[c], offset'[b], SizeOf[b])
    <3>1. CASE c = a
      <4>1. Apart(offset[b], SizeOf[b], offset'[a], SizeOf[a]) /\ offset'[b] = offset[b]
        BY <2>1, <2>2, <3>1
      <4> QED BY <3>1, <4>1 DEF Apart
    <3>2. CASE b = a
      BY <2>1, <2>2, <3>2
    <3>3. CASE c # a /\ b # a
      BY <2>1, <2>2, <3>3 DEF RangeInv
    <3> QED BY <3>1, <3>2, <3>3
  <2>3. ASSUME NEW c \in Subs, pc'[c] # "none"
        PROVE  offset'[c] \in Nat /\ offset'[c] + SizeOf[c] <= ChunkSize /\ offset'[c] % AlignmentOf[c] = 0
    BY <2>1, <2>3 DEF RangeInv
  <2>4. Held' = Held \cup {a} /\ a \notin Held
    BY <2>1 DEF Held
  <2>5. MemoryOf(a)' = Cells(offset'[a], SizeOf[a]) /\ \A b \in Held : MemoryOf(b)' = MemoryOf(b)
    BY <2>1, <2>4 DEF Held, MemoryOf
  <2>6. Rest' = Rest \ Cells(offset'[a], SizeOf[a])
    <3>1. \A x : x \in (UNION {MemoryOf(b) : b \in Held})' <=>
                 x \in UNION {MemoryOf(b) : b \in Held} \/ x \in Cells(offset'[a], SizeOf[a])
      BY <2>4, <2>5
    <3> QED BY <3>1 DEF Rest
  <2>7. Describes(free_ranges', Rest')
    BY <2>1, <2>6
  <2> QED BY <2>2, <2>3, <2>7 DEF RangeInv
<1>4. ASSUME NEW a \in Allocs, NEW z \in Kinds, Allocate(a, z)  PROVE RangeInv'
  <2>1. a \notin Subs /\ a # Chunk /\ UNCHANGED chunkVars /\ \A o \in Subs \cup {Chunk} : pc'[o] = pc[o]
    BY <1>0, <1>4, ObjectNames DEF Allocate, At
  <2> QED BY <1>1, <2>1 DEF chunkVars
<1>5. ASSUME NEW a \in Objects, ReturnRange(a)  PROVE RangeInv'
  <2>1. /\ a \in Subs /\ pc[a] = "returns" /\ offset' = offset
        /\ free_ranges' = FreeRange(free_ranges, offset[a], SizeOf[a])
        /\ pc'[a] = "none" /\ \A b \in Subs \ {a} : pc'[b] = pc[b]
    BY <1>0, <1>5, ObjectNames DEF ReturnRange
  <2>2. Describes(free_ranges, Rest)
    BY <2>1 DEF OwnerInv, RangeInv
  <2>3. a \in Held /\ Held' = Held \ {a} /\ \A b : MemoryOf(b)' = MemoryOf(b)
    BY <2>1 DEF Held, MemoryOf
  <2>4. /\ MemoryOf(a) = Cells(offset[a], SizeOf[a]) /\ SizeOf[a] \in Nat \ {0}
        /\ offset[a] \in Nat /\ offset[a] + SizeOf[a] <= ChunkSize
    BY <1>0, <2>1 DEF MemoryOf, RangeInv
  <2>5. Cells(offset[a], SizeOf[a]) \cap Rest = {}
    BY <2>3, <2>4 DEF Rest
  <2>6. Describes(free_ranges', Rest \cup Cells(offset[a], SizeOf[a]))
    <3>1. offset[a] \in Nat /\ SizeOf[a] \in Nat \ {0}
      BY <2>4
    <3>2. Describes(FreeRange(free_ranges, offset[a], SizeOf[a]), Rest \cup Cells(offset[a], SizeOf[a]))
      BY ONLY <2>2, <2>5, <3>1, FreedDescribed
    <3> QED BY <2>1, <3>2
  <2>7. Rest' = Rest \cup MemoryOf(a)
    <3>1. MemoryOf(a) \subseteq 0 .. ChunkSize - 1
      BY <1>0, <2>4 DEF Cells
    <3>2. ASSUME NEW b \in Held \ {a}  PROVE MemoryOf(a) \cap MemoryOf(b) = {}
      <4>1. /\ Apart(offset[a], SizeOf[a], offset[b], SizeOf[b]) /\ MemoryOf(b) = Cells(offset[b], SizeOf[b])
            /\ offset[b] \in Nat /\ SizeOf[b] \in Nat \ {0}
        BY <1>0, <2>1 DEF Held, RangeInv, MemoryOf
      <4> QED BY <2>4, <4>1 DEF Cells, Apart
    <3>3. \A x : x \in (UNION {MemoryOf(b) : b \in Held})' <=>
                 \E b \in Held \ {a} : x \in MemoryOf(b)
      BY <2>3
    <3>4. \A x : x \in UNION {MemoryOf(b) : b \in Held} <=>
                 x \in MemoryOf(a) \/ \E b \in Held \ {a} : x \in MemoryOf(b)
      BY <2>3
    <3> QED BY <3>1, <3>2, <3>3, <3>4 DEF Rest
  <2>8. Describes(free_ranges', Rest')
    BY <2>4, <2>6, <2>7
  <2> SUFFICES ASSUME NEW c \in Subs, pc'[c] # "none"
               PROVE  /\ offset'[c] \in Nat /\ offset'[c] + SizeOf[c] <= ChunkSize /\ offset'[c] % AlignmentOf[c] = 0
                      /\ \A b \in Subs \ {c} : pc'[b] # "none" =>
                           Apart(offset'[c], SizeOf[c], offset'[b], SizeOf[b])
    BY <2>8 DEF RangeInv
  <2>9. pc[c] # "none" /\ \A b \in Subs : pc'[b] # "none" => pc[b] # "none"
    BY <2>1
  <2> QED BY <2>1, <2>9 DEF RangeInv
<1>6. ASSUME NEW o \in Objects, ReturnMemory(o)  PROVE RangeInv'
  <2>1. /\ o \notin Subs /\ pc[o] = "returns" /\ pc'[o] = "none" /\ offset' = offset
        /\ free_ranges' = IF o = Chunk THEN <<>> ELSE free_ranges
        /\ \A p \in Objects \ {o} : pc'[p] = pc[p]
    BY <1>0, <1>6 DEF ReturnMemory, At
  <2>2. CASE o = Chunk
    <3>1. \A a \in Subs : pc'[a] = "none"
      BY <2>1, <2>2, ObjectNames DEF OwnerInv
    <3> QED BY <2>1, <2>2, <3>1 DEF RangeInv
  <2>3. CASE o # Chunk
    BY <1>1, <2>1, <2>3, ObjectNames
  <2> QED BY <2>2, <2>3
<1>7. CASE \E a \in Allocs, z \in Kinds : Suballocate(a, z) \/ Allocate(a, z)
  BY <1>3, <1>4, <1>7
<1>8. CASE \E o \in Objects : ReturnRange(o) \/ ReturnMemory(o)
  BY <1>5, <1>6, <1>8
<1> QED BY <1>2, <1>7, <1>8, RangeFrames DEF Next, Free

-----------------------------------------------------------------------------
(* The list of transfers and the command buffers.                          *)

LEMMA ListedTransfers ==
  ASSUME SeqInv, NEW i \in DOMAIN transfers
  PROVE  \/ transfers[i].op = "clear" /\ transfers[i].of \in Allocs /\ transfers[i] = Clear(transfers[i].of)
         \/ transfers[i].op = "write" /\ transfers[i].of \in Textures /\ transfers[i] = Write(transfers[i].of)
<1>1. transfers[i] \in {Clear(a) : a \in Allocs} \cup {Write(r) : r \in Textures}
  BY DEF SeqInv, TypeOK
<1>2. \A x : Clear(x).op = "clear" /\ Clear(x).of = x /\ Write(x).op = "write" /\ Write(x).of = x
  BY DEF Clear, Write
<1> QED BY <1>1, <1>2

LEMMA ListedAllocs ==
  ASSUME SeqInv, NEW o, Clear(o) \in Range(transfers)
  PROVE  o \in Allocs /\ InList(o)
<1>1. PICK i \in DOMAIN transfers : transfers[i] = Clear(o)
  BY DEF Range
<1>2. Clear(o).op = "clear" /\ Clear(o).of = o
  BY DEF Clear
<1> QED BY <1>1, <1>2, ListedTransfers DEF InList

\* A transfer that is taken from the list is replaced by the last one.
LEMMA RemoveOk ==
  ASSUME IsSeq(transfers), NEW i \in DOMAIN transfers
  PROVE  /\ IsSeq(Remove(i)) /\ DOMAIN Remove(i) = 1 .. Len(transfers) - 1
         /\ DOMAIN transfers = 1 .. Len(transfers) /\ Len(transfers) \in Nat
         /\ \A j \in DOMAIN Remove(i) : Remove(i)[j] = transfers[IF j = i THEN Len(transfers) ELSE j]
         /\ Range(Remove(i)) = {transfers[k] : k \in DOMAIN transfers \ {i}}
<1> DEFINE r == Remove(i)
<1>1. DOMAIN transfers = 1 .. Len(transfers) /\ Len(transfers) \in Nat
  BY AppendElements
<1>2. /\ DOMAIN r = 1 .. Len(transfers) - 1 /\ Len(transfers) - 1 \in Nat
      /\ \A j \in DOMAIN r : r[j] = transfers[IF j = i THEN Len(transfers) ELSE j]
  BY <1>1 DEF Remove
<1>3. IsSeq(r)
  <2> DEFINE n == Len(transfers) - 1
             S == {r[j] : j \in 1 .. n}
  <2>1. n \in Nat /\ r = [j \in 1 .. n |-> r[j]] /\ \A j \in 1 .. n : r[j] \in S
    BY <1>2 DEF Remove
  <2>2. r \in [1 .. n -> S]
    BY <2>1
  <2> HIDE DEF n, S, r
  <2>3. r \in Seq(S)
    BY <2>1, <2>2
  <2> QED BY <2>3 DEF IsSeq
<1>4. ASSUME NEW k \in DOMAIN transfers \ {i} PROVE \E j \in DOMAIN r : r[j] = transfers[k]
  <2>1. CASE k = Len(transfers)
    BY <1>1, <1>2, <2>1
  <2>2. CASE k # Len(transfers)
    BY <1>1, <1>2, <2>2
  <2> QED BY <2>1, <2>2
<1>5. ASSUME NEW j \in DOMAIN r PROVE \E k \in DOMAIN transfers \ {i} : r[j] = transfers[k]
  BY <1>1, <1>2
<1>6. Range(r) = {transfers[k] : k \in DOMAIN transfers \ {i}}
  BY <1>4, <1>5 DEF Range
<1> QED BY <1>1, <1>2, <1>3, <1>6

LEMMA RemoveCount ==
  ASSUME IsSeq(transfers), NEW i \in DOMAIN transfers, transfers[i].op = "clear"
  PROVE  Cardinality({j \in DOMAIN Remove(i) : Remove(i)[j].op = "clear"}) =
           Cardinality({j \in DOMAIN transfers : transfers[j].op = "clear"}) - 1
<1> DEFINE n == Len(transfers)
           r == Remove(i)
           I == {j \in DOMAIN transfers : transfers[j].op = "clear"}
           J == {j \in DOMAIN r : r[j].op = "clear"}
           g == [j \in J |-> IF j = i THEN n ELSE j]
<1>1. /\ DOMAIN r = 1 .. n - 1 /\ DOMAIN transfers = 1 .. n /\ n \in Nat
      /\ \A j \in DOMAIN r : r[j] = transfers[IF j = i THEN n ELSE j]
  BY RemoveOk
<1> HIDE DEF n, r
<1>2. ASSUME NEW j \in J PROVE g[j] \in I \ {i}
  BY <1>1
<1>3. ASSUME NEW j \in J, NEW k \in J, g[j] = g[k] PROVE j = k
  BY <1>1, <1>3
<1>4. ASSUME NEW t \in I \ {i} PROVE \E j \in J : g[j] = t
  <2>1. CASE t = n
    <3>1. i \in J /\ g[i] = t
      BY <1>1, <2>1
    <3> QED BY <3>1
  <2>2. CASE t # n
    <3>1. t \in J /\ g[t] = t
      BY <1>1, <2>2
    <3> QED BY <3>1
  <2> QED BY <2>1, <2>2
<1>5. J \in SUBSET (1 .. n) /\ I \in SUBSET (1 .. n)
  BY <1>1
<1>6. IsFiniteSet(J) /\ IsFiniteSet(I) /\ Cardinality(I) \in Nat
  BY <1>1, <1>5, IndicesAreFinite
<1>7. g \in Bijection(J, I \ {i})
  BY <1>2, <1>3, <1>4 DEF Bijection, Injection, Surjection, IsInjective
<1>8. Cardinality(J) = Cardinality(I \ {i})
  BY <1>6, <1>7, FS_Bijection DEF ExistsBijection
<1>9. i \in I
  OBVIOUS
<1> HIDE DEF I, J
<1>10. Cardinality(I \ {i}) = Cardinality(I) - 1
  BY <1>6, <1>9, FS_RemoveElement
<1> QED BY <1>8, <1>10 DEF I, J, r

\* The next command buffer.
LEMMA NextBuffer ==
  ASSUME NEW b \in 0 .. Buffers - 1
  PROVE  (b + 1) % Buffers = IF b + 1 = Buffers THEN 0 ELSE b + 1
<1>1. Buffers \in Nat \ {0}
  BY SizesAssumption
<1>2. CASE b + 1 = Buffers
  BY <1>1, <1>2
<1>3. CASE b + 1 # Buffers
  BY <1>1, <1>3
<1> QED BY <1>2, <1>3

-----------------------------------------------------------------------------
(* Memory.                                                                 *)

LEMMA MemoryExists ==
  ASSUME SeqInv, RangeInv, NEW a \in Allocs, a \in Subs => pc[a] # "none"
  PROVE  MemoryOf(a) \subseteq Memories /\ MemoryOf(a) # {}
<1>1. CASE a \in Subs
  <2>1. /\ offset[a] \in Nat /\ SizeOf[a] \in Nat \ {0} /\ offset[a] + SizeOf[a] <= ChunkSize
        /\ ChunkSize \in Nat
    BY <1>1, SizesAssumption DEF RangeInv
  <2>2. MemoryOf(a) = offset[a] .. offset[a] + SizeOf[a] - 1
    BY <1>1 DEF MemoryOf, Cells
  <2>3. offset[a] \in MemoryOf(a) /\ MemoryOf(a) \subseteq 0 .. ChunkSize - 1
    BY <2>1, <2>2
  <2> QED BY <2>3 DEF Memories
<1>2. CASE a \notin Subs
  BY <1>2 DEF MemoryOf, Memories, Allocs
<1> QED BY <1>1, <1>2

LEMMA MemoriesApart ==
  ASSUME SeqInv, RangeInv, NEW a \in Allocs, NEW b \in Allocs, a # b,
         a \in Subs => pc[a] # "none", b \in Subs => pc[b] # "none"
  PROVE  MemoryOf(a) \cap MemoryOf(b) = {}
<1>1. CASE a \in Subs /\ b \in Subs
  <2>1. /\ offset[a] \in Nat /\ SizeOf[a] \in Nat \ {0}
        /\ offset[b] \in Nat /\ SizeOf[b] \in Nat \ {0}
        /\ Apart(offset[a], SizeOf[a], offset[b], SizeOf[b])
    BY <1>1, SizesAssumption DEF RangeInv
  <2> QED BY <1>1, <2>1 DEF Apart, MemoryOf, Cells
<1>2. CASE a \notin Subs /\ b \notin Subs
  BY <1>2 DEF MemoryOf
<1>3. ASSUME NEW c \in Allocs, NEW d \in Allocs, c \in Subs, d \notin Subs, pc[c] # "none"
      PROVE  MemoryOf(c) \cap MemoryOf(d) = {}
  <2>1. /\ offset[c] \in Nat /\ SizeOf[c] \in Nat \ {0} /\ offset[c] + SizeOf[c] <= ChunkSize
        /\ ChunkSize \in Nat
    BY <1>3, SizesAssumption DEF RangeInv
  <2>2. MemoryOf(c) = offset[c] .. offset[c] + SizeOf[c] - 1 /\ MemoryOf(d) = {d}
    BY <1>3 DEF MemoryOf, Cells
  <2>3. MemoryOf(c) \subseteq 0 .. ChunkSize - 1
    BY <2>1, <2>2
  <2>4. d \notin 0 .. ChunkSize - 1
    BY <1>3, NamesAssumption DEF Allocs
  <2> QED BY <2>2, <2>3, <2>4
<1> QED BY <1>1, <1>2, <1>3

-----------------------------------------------------------------------------
(* The submissions that the GPU has not finished.                          *)

\* What GpuInv is about stays as it is.
GpuFrame == UNCHANGED <<sem, onGpu, next, buffer>> /\ (mutex' = "waits" <=> mutex = "waits")

LEMMA GpuFrames ==
  ASSUME \/ \E a \in Allocs : \/ \E z \in Kinds : Suballocate(a, z) \/ Allocate(a, z)
                              \/ FillAllocation(a) \/ ExecuteCommandLists(a) \/ FreeMemory(a)
                              \/ \E q \in Queues : SubmitWork(a, q)
         \/ \E r \in Textures : WriteSubresource(r) \/ ReleaseTexture(r)
         \/ \E q \in Queues : GpuWork(q) \/ AddWait(q)
         \/ \E recorded \in BOOLEAN : FlushFails(recorded)
         \/ Track \/ (\E o \in Objects : Free(o)) \/ UNCHANGED vars
  PROVE  GpuFrame
<1>1. ASSUME NEW a \in Allocs, NEW z \in Kinds, Suballocate(a, z) \/ Allocate(a, z)  PROVE GpuFrame
  BY <1>1 DEF Suballocate, Allocate, GpuFrame, flushVars, listVars, gpuVars
<1>2. ASSUME NEW a \in Allocs, FillAllocation(a) \/ ExecuteCommandLists(a) \/ FreeMemory(a)  PROVE GpuFrame
  BY <1>2 DEF FillAllocation, Execute, ExecuteCommandLists, FreeMemory, GpuFrame, flushVars, listVars, gpuVars
<1>3. ASSUME NEW a \in Allocs, NEW q \in Queues, SubmitWork(a, q)  PROVE GpuFrame
  BY <1>3 DEF SubmitWork, GpuFrame, flushVars, listVars, gpuVars
<1>4. ASSUME NEW r \in Textures, WriteSubresource(r) \/ ReleaseTexture(r)  PROVE GpuFrame
  BY <1>4 DEF WriteSubresource, Execute, ReleaseTexture, GpuFrame, flushVars, listVars, gpuVars
<1>5. ASSUME NEW q \in Queues, GpuWork(q) \/ AddWait(q)  PROVE GpuFrame
  BY <1>5 DEF GpuWork, AddWait, GpuFrame, flushVars, listVars, gpuVars
<1>6. ASSUME NEW recorded \in BOOLEAN, FlushFails(recorded)  PROVE GpuFrame
  BY <1>6 DEF FlushFails, Resume, GpuFrame, listVars, gpuVars
<1>7. ASSUME Track  PROVE GpuFrame
  BY <1>7 DEF Track, TakeBatch, ReleaseTracked, GpuFrame, flushVars, listVars, gpuVars
<1>8. ASSUME NEW o \in Objects, Free(o)  PROVE GpuFrame
  <2>1. CASE CheckDone(o) \/ TakeFromList(o) \/ NotInList(o)
    BY <2>1 DEF CheckDone, TakeFromList, NotInList, GpuFrame, flushVars, listVars, gpuVars
  <2>2. CASE Waited(o) \/ ReturnRange(o) \/ ReturnMemory(o)
    BY <2>2 DEF Waited, ReturnRange, ReturnMemory, GpuFrame, flushVars, listVars, gpuVars
  <2> QED BY <1>8, <2>1, <2>2 DEF Free
<1>9. ASSUME UNCHANGED vars  PROVE GpuFrame
  BY <1>9 DEF vars, GpuFrame, flushVars, listVars, gpuVars
<1> QED BY <1>1, <1>2, <1>3, <1>4, <1>5, <1>6, <1>7, <1>8, <1>9

\* The first submission is the one after the value that the semaphore has.
LEMMA GpuFacts ==
  ASSUME SeqInv, GpuInv
  PROVE  /\ DOMAIN onGpu = 1 .. Len(onGpu) /\ Len(onGpu) \in Nat
         /\ sem \in Nat /\ next \in Nat /\ Submitted \in Nat /\ Buffers \in Nat \ {0}
         /\ Submitted <= next /\ (mutex # "waits" => Submitted = next - 1)
         /\ sem + Len(onGpu) = Submitted
         /\ \A i \in DOMAIN onGpu : /\ onGpu[i].value \in Nat /\ onGpu[i].value > sem
                                    /\ onGpu[i].value <= Submitted
<1>1. DOMAIN onGpu = 1 .. Len(onGpu) /\ Len(onGpu) \in Nat
  BY AppendElements DEF SeqInv
<1>2. sem \in Nat /\ next \in Nat /\ sem <= Submitted
  BY DEF SeqInv, TypeOK, GpuInv
<1>3. Submitted \in Nat /\ Submitted <= next /\ (mutex # "waits" => Submitted = next - 1)
  BY <1>2 DEF Submitted
<1>4. Len(onGpu) = Submitted - sem /\ \A i \in DOMAIN onGpu : onGpu[i].value = sem + i
  BY DEF GpuInv
<1> QED BY <1>1, <1>2, <1>3, <1>4, SizesAssumption

LEMMA Lengths ==
  ASSUME NEW s, IsSeq(s)
  PROVE  /\ \A e : Len(Append(s, e)) = Len(s) + 1
         /\ s # <<>> => Len(Tail(s)) = Len(s) - 1
<1>1. PICK S : s \in Seq(S)
  BY DEF IsSeq
<1>2. ASSUME NEW e  PROVE Len(Append(s, e)) = Len(s) + 1
  <2>1. s \in Seq(S \cup {e}) /\ e \in S \cup {e}
    BY <1>1
  <2> QED BY <2>1
<1>3. s # <<>> => Len(Tail(s)) = Len(s) - 1
  BY <1>1
<1> QED BY <1>2, <1>3

LEMMA GpuInvStep ==
  ASSUME SeqInv, GpuInv, [Next]_vars
  PROVE  GpuInv'
<1>f. /\ DOMAIN onGpu = 1 .. Len(onGpu) /\ Len(onGpu) \in Nat
      /\ sem \in Nat /\ next \in Nat /\ Buffers \in Nat \ {0} /\ Submitted \in Nat
      /\ sem + Len(onGpu) = Submitted
  BY GpuFacts
<1>1. ASSUME GpuFrame  PROVE GpuInv'
  BY <1>1 DEF GpuFrame, GpuInv, BufferBefore, Submitted
<1>0. buffer \in 0 .. Buffers - 1
  BY DEF SeqInv, TypeOK
<1>2. ASSUME Submit  PROVE GpuInv'
  <2> DEFINE new == [value |-> next, buffer |-> buffer, ops |-> transfers,
                     cells |-> UNION {MemoryOf(t.of) : t \in {u \in Range(transfers) : u.op = "clear"}}]
  <2>1. /\ mutex = "submit" /\ mutex' = "waits" /\ onGpu' = Append(onGpu, new)
        /\ sem >= next - Buffers /\ next' = next /\ sem' = sem /\ buffer' = buffer
    BY <1>2 DEF Submit, BufferIsIdle, listVars
  <2>2. new.value = next /\ new.buffer = buffer
    OBVIOUS
  <2> HIDE DEF new
  <2>3. /\ DOMAIN onGpu' = 1 .. Len(onGpu) + 1
        /\ \A i \in 1 .. Len(onGpu) : onGpu'[i] = onGpu[i]
        /\ onGpu'[Len(onGpu) + 1] = new
    BY <2>1, AppendElements DEF SeqInv
  <2>4. Len(onGpu') = Len(onGpu) + 1
    BY <2>1, Lengths DEF SeqInv
  <2>5. Submitted' = next /\ Submitted = next - 1
    BY <2>1 DEF Submitted
  <2>6. sem' <= Submitted' /\ Len(onGpu') = Submitted' - sem' /\ Len(onGpu') <= Buffers
    BY <1>f, <2>1, <2>4, <2>5
  <2>7. ASSUME NEW i \in DOMAIN onGpu'
        PROVE  onGpu'[i].value = sem' + i /\ onGpu'[i].buffer = BufferBefore(next - (sem + i))
    <3>1. CASE i \in 1 .. Len(onGpu)
      BY <1>f, <2>1, <2>3, <3>1 DEF GpuInv
    <3>2. CASE i = Len(onGpu) + 1
      <4>1. onGpu'[i] = new /\ sem + i = next
        BY <1>f, <2>3, <2>5, <3>2
      <4>2. next - (sem + i) = 0 /\ BufferBefore(0) = buffer
        BY <1>f, <1>0, <4>1 DEF BufferBefore
      <4>3. sem' + i = next
        BY <2>1, <4>1
      <4> QED BY <2>2, <4>1, <4>2, <4>3
    <3> QED BY <2>3, <3>1, <3>2
  <2> QED BY <2>1, <2>6, <2>7 DEF GpuInv, BufferBefore
<1>3. ASSUME FlushEnds  PROVE GpuInv'
  <2>1. /\ mutex = "waits" /\ mutex' = "free" /\ onGpu' = onGpu /\ sem' = sem /\ next' = next + 1
        /\ buffer' = (buffer + 1) % Buffers
    BY <1>3 DEF FlushEnds, Resume, gpuVars
  <2>2. buffer' = IF buffer + 1 = Buffers THEN 0 ELSE buffer + 1
    BY <1>0, <2>1, NextBuffer
  <2>3. Submitted' = next /\ Submitted = next
    BY <1>f, <2>1 DEF Submitted
  <2>4. ASSUME NEW i \in DOMAIN onGpu
        PROVE  /\ onGpu'[i].value = sem' + i
               /\ onGpu'[i].buffer = LET k == next' - (sem' + i) IN
                                     IF k <= buffer' THEN buffer' - k ELSE buffer' - k + Buffers
    <3>1. /\ onGpu[i].value = sem + i /\ onGpu[i].buffer = BufferBefore(next - (sem + i))
          /\ i \in 1 .. Len(onGpu) /\ Len(onGpu) <= Buffers
      BY <1>f DEF GpuInv
    <3> DEFINE k == next - (sem + i)
    <3>2. k \in 0 .. Buffers - 1 /\ next' - (sem' + i) = k + 1
      <4>1. next = sem + Len(onGpu)
        BY <1>f, <2>3
      <4> QED BY <1>f, <2>1, <3>1, <4>1
    <3>3. onGpu'[i].buffer = BufferBefore(k)
      BY <2>1, <3>1
    <3> HIDE DEF k
    <3>4. BufferBefore(k) = IF k + 1 <= buffer' THEN buffer' - (k + 1) ELSE buffer' - (k + 1) + Buffers
      BY <1>f, <1>0, <2>2, <3>2 DEF BufferBefore
    <3> QED BY <2>1, <3>1, <3>2, <3>3, <3>4
  <2>5. sem' <= Submitted' /\ Len(onGpu') = Submitted' - sem' /\ Len(onGpu') <= Buffers
    BY <1>f, <2>1, <2>3 DEF GpuInv
  <2> QED BY <2>1, <2>4, <2>5 DEF GpuInv, BufferBefore
<1>4. ASSUME GpuTransfers  PROVE GpuInv'
  <2>1. /\ onGpu # <<>> /\ sem' = Head(onGpu).value /\ onGpu' = Tail(onGpu)
        /\ mutex' = mutex /\ next' = next /\ buffer' = buffer
    BY <1>4 DEF GpuTransfers, flushVars, listVars
  <2>2. /\ IsSeq(onGpu') /\ DOMAIN onGpu' = 1 .. Len(onGpu) - 1 /\ Head(onGpu) = onGpu[1]
        /\ \A i \in 1 .. Len(onGpu) - 1 : onGpu'[i] = onGpu[i + 1]
        /\ Len(onGpu) >= 1
    BY <1>f, <2>1, TailElements DEF SeqInv
  <2>3. Len(onGpu') = Len(onGpu) - 1
    BY <2>1, Lengths DEF SeqInv
  <2>4. sem' = sem + 1 /\ Submitted' = Submitted
    <3>1. 1 \in DOMAIN onGpu
      BY <1>f, <2>2
    <3> QED BY <1>f, <2>1, <2>2, <3>1 DEF GpuInv, Submitted
  <2>5. ASSUME NEW i \in DOMAIN onGpu'
        PROVE  onGpu'[i].value = sem' + i /\ onGpu'[i].buffer = BufferBefore(next - (sem' + i))
    <3>1. i + 1 \in DOMAIN onGpu /\ onGpu'[i] = onGpu[i + 1] /\ sem + (i + 1) = sem' + i
      <4>1. i \in 1 .. Len(onGpu) - 1
        BY <2>2
      <4>2. i + 1 \in 1 .. Len(onGpu) /\ onGpu'[i] = onGpu[i + 1]
        BY <1>f, <2>2, <4>1
      <4> QED BY <1>f, <2>4, <4>1, <4>2
    <3>2. onGpu[i + 1].value = sem + (i + 1) /\ onGpu[i + 1].buffer = BufferBefore(next - (sem + (i + 1)))
      BY <3>1 DEF GpuInv
    <3> QED BY <3>1, <3>2
  <2>6. sem' <= Submitted' /\ Len(onGpu') = Submitted' - sem' /\ Len(onGpu') <= Buffers
    BY <1>f, <2>2, <2>3, <2>4 DEF GpuInv
  <2> QED BY <2>1, <2>5, <2>6 DEF GpuInv, BufferBefore
<1> QED BY <1>1, <1>2, <1>3, <1>4, GpuFrames DEF Next, Gpu, Flush

-----------------------------------------------------------------------------
(* Memory that the GPU clears is not given back.                           *)

LEMMA OutlivesStep ==
  ASSUME SeqInv, OwnerInv, GpuInv, Next, NEW o \in Dedicated \cup {Chunk},
         NEW v \in Nat, v > sem, v <= Submitted, Outlives(o, v)
  PROVE  Outlives(o, v)'
<1> DEFINE Keeps == pc'[o] = pc[o] /\ clear'[o] = clear[o] /\ until'[o] = until[o]
<1>0. /\ o \in Objects /\ o \notin Subs /\ (o # Chunk => o \in Dedicated)
      /\ Chunk \in Objects /\ Chunk \notin Allocs /\ Allocs \subseteq Objects
      /\ pc \in [Objects -> {"none", "taken", "flushes", "live", "check", "search", "blocked", "returns"}]
      /\ clear \in [Objects -> 0 .. next] /\ until \in [Objects -> 0 .. next]
      /\ sem \in Nat /\ next \in Nat /\ v <= next /\ (mutex # "waits" => v <= next - 1)
  <2>1. /\ o \in Objects /\ o \notin Subs /\ (o # Chunk => o \in Dedicated)
        /\ Chunk \in Objects /\ Chunk \notin Allocs /\ Allocs \subseteq Objects
    BY NamesAssumption DEF Objects, Allocs
  <2>2. /\ pc \in [Objects -> {"none", "taken", "flushes", "live", "check", "search", "blocked", "returns"}]
        /\ clear \in [Objects -> 0 .. next] /\ until \in [Objects -> 0 .. next]
    BY DEF SeqInv, TypeOK
  <2>3. sem \in Nat /\ next \in Nat
    BY GpuFacts
  <2>4. v <= next /\ (mutex # "waits" => v <= next - 1)
    BY <2>3 DEF Submitted
  <2> QED BY ONLY <2>1, <2>2, <2>3, <2>4
<1>k. ASSUME Keeps  PROVE Outlives(o, v)'
  BY <1>k DEF Outlives
<1>1. ASSUME NEW a \in Allocs, NEW z \in Kinds, Suballocate(a, z) \/ Allocate(a, z)
      PROVE  Outlives(o, v)'
  <2>1. CASE Suballocate(a, z)
    BY <1>0, <2>1 DEF Suballocate, Outlives, Busy, AllocatorFree
  <2>2. CASE Allocate(a, z)
    <3>1. o # a
      BY <1>0, <2>2 DEF Allocate, Outlives, Busy
    <3> QED BY <1>0, <1>k, <2>2, <3>1 DEF Allocate, At
  <2> QED BY <1>1, <2>1, <2>2
<1>2. ASSUME NEW a \in Allocs, FillAllocation(a)  PROVE Outlives(o, v)'
  <2>1. o # a
    BY <1>0, <1>2 DEF FillAllocation, Outlives, Busy
  <2>2. /\ pc'[o] = pc[o] /\ until'[o] = until[o]
        /\ clear'[o] = IF o = Chunk /\ a \in Subs THEN next ELSE clear[o]
    BY <1>0, <1>2, <2>1 DEF FillAllocation, At
  <2> QED BY <1>0, <2>2, NamesAssumption DEF Outlives
<1>3. ASSUME NEW a \in Allocs, ExecuteCommandLists(a) \/ \E q \in Queues : SubmitWork(a, q)
      PROVE  Outlives(o, v)'
  BY <1>3, <1>k DEF ExecuteCommandLists, SubmitWork
<1>4. ASSUME NEW a \in Allocs, FreeMemory(a)  PROVE Outlives(o, v)'
  BY <1>0, <1>4 DEF FreeMemory, At, Outlives, Busy
<1>5. ASSUME NEW r \in Textures, WriteSubresource(r) \/ ReleaseTexture(r)  PROVE Outlives(o, v)'
  BY <1>5, <1>k DEF WriteSubresource, ReleaseTexture, objVars
<1>6. ASSUME Gpu \/ Track \/ Submit \/ \E q \in Queues : AddWait(q)  PROVE Outlives(o, v)'
  BY <1>6, <1>k DEF Gpu, GpuTransfers, GpuWork, Track, TakeBatch, ReleaseTracked, Submit, AddWait, objVars
<1>7. ASSUME FlushEnds \/ \E recorded \in BOOLEAN : FlushFails(recorded)  PROVE Outlives(o, v)'
  <2>1. pc'[o] = (IF o = flusher /\ pc[o] = "flushes" THEN "live" ELSE pc[o]) /\ clear' = clear /\ until' = until
    BY <1>0, <1>7 DEF FlushEnds, FlushFails, Resume
  <2> QED BY <2>1 DEF Outlives, Busy
<1>8. ASSUME NEW p \in Objects, Free(p)  PROVE Outlives(o, v)'
  <2>1. CASE CheckDone(p)
    BY <1>0, <2>1 DEF CheckDone, At, Outlives, Busy
  <2>2. CASE TakeFromList(p)
    <3>1. /\ mutex = "free" /\ Clear(p) \in Range(transfers)
          /\ pc' = [pc EXCEPT ![p] = "returns"] /\ clear' = clear /\ until' = until
      BY <2>2 DEF TakeFromList, At, Range
    <3>2. p # o
      <4>1. ASSUME p = o  PROVE FALSE
        <5>1. o \in Allocs
          BY <3>1, <4>1, ListedAllocs
        <5>2. clear[o] = next /\ o \in Dedicated
          BY <1>0, <3>1, <4>1, <5>1 DEF OwnerInv, Listed
        <5> QED BY <1>0, <3>1, <5>2 DEF Outlives
      <4> QED BY <4>1
    <3> QED BY <1>0, <1>k, <3>1, <3>2
  <2>3. CASE NotInList(p)
    <3>1. CASE p # o
      BY <1>0, <1>k, <2>3, <3>1 DEF NotInList, At
    <3>2. CASE p = o
      <4>1. /\ mutex = "free" /\ pc[o] = "search" /\ pc'[o] = "blocked" /\ clear' = clear
            /\ until'[o] = IF clear[o] = next THEN next - 1 ELSE clear[o]
        BY <1>0, <2>3, <3>2 DEF NotInList, At
      <4>2. clear[o] >= v /\ (o \in Dedicated => clear[o] = v)
        BY DEF Outlives
      <4>3. until'[o] >= v
        BY <1>0, <4>1, <4>2
      <4> QED BY <4>1, <4>2, <4>3 DEF Outlives, Busy
    <3> QED BY <3>1, <3>2
  <2>4. CASE Waited(p)
    <3>1. p # o
      BY <1>0, <2>4 DEF Waited, Outlives, Busy
    <3> QED BY <1>0, <1>k, <2>4, <3>1 DEF Waited, At
  <2>5. CASE ReturnRange(p)
    BY <1>0, <2>5 DEF ReturnRange, Outlives, Busy, AllocatorFree
  <2>6. CASE ReturnMemory(p)
    <3>1. p # o
      BY <1>0, <2>6 DEF ReturnMemory, Outlives, Busy
    <3> QED BY <1>0, <1>k, <2>6, <3>1 DEF ReturnMemory, At
  <2>7. CheckDone(p) \/ TakeFromList(p) \/ NotInList(p) \/ Waited(p) \/ ReturnRange(p) \/ ReturnMemory(p)
    BY <1>8 DEF Free
  <2> QED BY <2>1, <2>2, <2>3, <2>4, <2>5, <2>6, <2>7
<1>9. CASE \E a \in Allocs : \/ \E z \in Kinds : Suballocate(a, z) \/ Allocate(a, z)
                             \/ FillAllocation(a) \/ ExecuteCommandLists(a) \/ FreeMemory(a)
                             \/ \E q \in Queues : SubmitWork(a, q)
  BY <1>1, <1>2, <1>3, <1>4, <1>9
<1>10. CASE Gpu \/ Flush \/ Track
  BY <1>6, <1>7, <1>10 DEF Flush
<1> QED BY <1>5, <1>8, <1>9, <1>10 DEF Next

LEMMA ClearInvStep ==
  ASSUME SeqInv, OwnerInv, GpuInv, ClearInv, [Next]_vars
  PROVE  ClearInv'
<1>0. /\ \A a \in Allocs : Memory(a) \in Dedicated \cup {Chunk}
      /\ \A a \in Allocs : a \notin Subs => Memory(a) = a
      /\ \A a \in Subs : Memory(a) = Chunk /\ Chunk \notin Dedicated
  BY NamesAssumption DEF Memory, Allocs
\* A submission that was there, and the memory that it clears.
<1>1. ASSUME NEW i \in DOMAIN onGpu, NEW a \in Allocs, Clear(a) \in Range(onGpu[i].ops), Next,
             NEW v, v = onGpu[i].value
      PROVE  Outlives(Memory(a), v)'
  <2>1. Outlives(Memory(a), v) /\ v \in Nat /\ v > sem /\ v <= Submitted /\ Memory(a)' = Memory(a)
    BY <1>1, GpuFacts DEF ClearInv, Memory
  <2>2. PICK o \in Dedicated \cup {Chunk} : o = Memory(a)
    BY <1>0
  <2>3. v \in Nat /\ v > sem /\ v <= Submitted /\ Outlives(o, v) /\ Next
    BY <1>1, <2>1, <2>2
  <2>4. Outlives(o, v)'
    BY ONLY <2>3, SeqInv, OwnerInv, GpuInv, o \in Dedicated \cup {Chunk}, OutlivesStep
  <2> QED BY <2>1, <2>2, <2>4 DEF Outlives
<1>2. CASE UNCHANGED onGpu
  <2>1. CASE Next
    <3> SUFFICES ASSUME NEW i \in DOMAIN onGpu, NEW a \in Allocs, Clear(a) \in Range(onGpu[i].ops)
                 PROVE  Outlives(Memory(a), onGpu[i].value)'
      BY <1>2 DEF ClearInv, Clear
    <3>1. PICK v : v = onGpu[i].value
      OBVIOUS
    <3>2. Outlives(Memory(a), v)'
      BY <1>1, <2>1, <3>1
    <3> QED BY <1>2, <3>1, <3>2 DEF Outlives
  <2>2. CASE UNCHANGED vars
    BY <2>2 DEF ClearInv, Outlives, vars, objVars, gpuVars, Clear, Memory, Busy
  <2> QED BY <2>1, <2>2
<1>3. CASE Submit
  <2> DEFINE cells == UNION {MemoryOf(t.of) : t \in {u \in Range(transfers) : u.op = "clear"}}
             new   == [value |-> next, buffer |-> buffer, ops |-> transfers, cells |-> cells]
  <2>1. /\ mutex = "submit" /\ onGpu' = Append(onGpu, new) /\ Next
        /\ pc' = pc /\ clear' = clear /\ until' = until
    BY <1>3 DEF Submit, objVars, Next, Flush
  <2>2. new.value = next /\ new.ops = transfers
    OBVIOUS
  <2> HIDE DEF new
  <2>3. /\ DOMAIN onGpu = 1 .. Len(onGpu) /\ DOMAIN onGpu' = 1 .. Len(onGpu) + 1
        /\ \A i \in 1 .. Len(onGpu) : onGpu'[i] = onGpu[i]
        /\ onGpu'[Len(onGpu) + 1] = new /\ Len(onGpu) \in Nat
    BY <2>1, AppendElements DEF SeqInv
  <2> SUFFICES ASSUME NEW i \in DOMAIN onGpu', NEW a \in Allocs, Clear(a) \in Range(onGpu'[i].ops)
               PROVE  Outlives(Memory(a), onGpu[i].value)'
    BY DEF ClearInv, Clear
  <2>4. CASE i \in 1 .. Len(onGpu)
    <3>1. PICK v : v = onGpu[i].value
      OBVIOUS
    <3>2. Outlives(Memory(a), v)'
      BY <1>1, <2>1, <2>3, <2>4, <3>1
    <3> QED BY <2>3, <2>4, <3>1, <3>2 DEF Outlives
  <2>5. CASE i = Len(onGpu) + 1
    <3>1. onGpu'[i].value = next /\ Clear(a) \in Range(transfers)
      BY <2>2, <2>3, <2>5
    <3>2. Listed(a)
      BY <2>1, <3>1 DEF Listed
    <3>3. pc[Memory(a)] \in Busy /\ clear[Memory(a)] = next
      <4>1. pc[a] \in Busy /\ clear[a] = next
        BY <3>2 DEF OwnerInv
      <4>2. a \in Subs => pc[Chunk] = "live" /\ clear[Chunk] = next
        BY <3>2, <4>1 DEF OwnerInv, Busy
      <4> QED BY <4>1, <4>2 DEF Memory, Busy
    <3>4. next \in Nat
      BY GpuFacts
    <3> QED BY <2>1, <3>1, <3>3, <3>4 DEF Outlives, Busy, Memory
  <2> QED BY <2>3, <2>4, <2>5
<1>4. CASE GpuTransfers
  <2>1. onGpu # <<>> /\ onGpu' = Tail(onGpu) /\ Next
    BY <1>4 DEF GpuTransfers, Next, Gpu
  <2>2. /\ DOMAIN onGpu = 1 .. Len(onGpu) /\ DOMAIN onGpu' = 1 .. Len(onGpu) - 1
        /\ \A i \in 1 .. Len(onGpu) - 1 : onGpu'[i] = onGpu[i + 1]
        /\ Len(onGpu) \in Nat
    BY <2>1, TailElements DEF SeqInv
  <2> SUFFICES ASSUME NEW i \in DOMAIN onGpu', NEW a \in Allocs, Clear(a) \in Range(onGpu'[i].ops)
               PROVE  Outlives(Memory(a), onGpu[i].value)'
    BY DEF ClearInv, Clear
  <2>3. PICK j \in DOMAIN onGpu : onGpu'[i] = onGpu[j]
    BY <2>2
  <2>4. PICK v : v = onGpu[j].value
    OBVIOUS
  <2>5. Outlives(Memory(a), v)'
    BY <1>1, <2>1, <2>3, <2>4
  <2> QED BY <2>3, <2>4, <2>5 DEF Outlives
<1>5. \/ UNCHANGED onGpu \/ Submit \/ GpuTransfers
  BY GpuFrames DEF GpuFrame, Next, Gpu, Flush, FlushEnds, gpuVars
<1> QED BY <1>2, <1>3, <1>4, <1>5

-----------------------------------------------------------------------------
(* Who owns memory.                                                        *)

LEMMA RangeOfAppend ==
  ASSUME NEW s, IsSeq(s), NEW e
  PROVE  Range(Append(s, e)) = Range(s) \cup {e}
<1>1. /\ DOMAIN s = 1 .. Len(s) /\ Len(s) \in Nat /\ DOMAIN Append(s, e) = 1 .. (Len(s) + 1)
      /\ \A i \in 1 .. Len(s) : Append(s, e)[i] = s[i]
      /\ Append(s, e)[Len(s) + 1] = e
  BY AppendElements
<1> DEFINE t == Append(s, e)
           n == Len(s)
<1> HIDE DEF t, n
<1>2. /\ DOMAIN s = 1 .. n /\ n \in Nat /\ DOMAIN t = 1 .. (n + 1)
      /\ \A i \in 1 .. n : t[i] = s[i]
      /\ t[n + 1] = e
  BY <1>1 DEF t, n
<1>3. Range(t) = Range(s) \cup {e}
  <2>1. ASSUME NEW i \in DOMAIN t  PROVE t[i] \in Range(s) \cup {e}
    BY <1>2 DEF Range
  <2>2. ASSUME NEW i \in DOMAIN s  PROVE s[i] \in Range(t)
    <3>1. i \in DOMAIN t /\ t[i] = s[i]
      BY <1>2
    <3> QED BY <3>1 DEF Range
  <2>3. e \in Range(t)
    <3>1. n + 1 \in DOMAIN t /\ t[n + 1] = e
      BY <1>2
    <3> QED BY <3>1 DEF Range
  <2> QED BY <2>1, <2>2, <2>3 DEF Range
<1> QED BY <1>3 DEF t

LEMMA TakenFromList ==
  ASSUME SeqInv, ListInv, NEW o \in Objects, TakeFromList(o)
  PROVE  /\ o \in Allocs /\ InList(o)
         /\ Range(transfers') = Range(transfers) \ {Clear(o)}
         /\ \E i \in DOMAIN transfers : transfers[i] = Clear(o) /\ transfers' = Remove(i)
<1>1. PICK i \in DOMAIN transfers : transfers[i] = Clear(o) /\ transfers' = Remove(i)
  BY DEF TakeFromList
<1>2. Range(transfers') = {transfers[k] : k \in DOMAIN transfers \ {i}}
  BY <1>1, RemoveOk DEF SeqInv
<1>3. \A k \in DOMAIN transfers \ {i} : transfers[k] # Clear(o)
  BY <1>1 DEF ListInv, Clear
<1>4. Range(transfers') = Range(transfers) \ {Clear(o)} /\ Clear(o) \in Range(transfers)
  BY <1>1, <1>2, <1>3 DEF Range
<1> QED BY <1>1, <1>4, ListedAllocs DEF InList

LEMMA OwnerInvStep ==
  ASSUME SeqInv, OwnerInv, ListInv, GpuInv, RangeInv, RangeInv', [Next]_vars
  PROVE  OwnerInv'
<1> USE ObjectNames
<1>0. /\ pc \in [Objects -> {"none", "taken", "flushes", "live", "check", "search", "blocked", "returns"}]
      /\ clear \in [Objects -> 0 .. next] /\ until \in [Objects -> 0 .. next]
      /\ zeroed \in [Allocs -> BOOLEAN]
      /\ work \in [Allocs -> {"none", "flushes", "queued", "submitted"}]
      /\ next \in Nat /\ sem \in Nat /\ sem <= next /\ (mutex # "waits" => sem < next)
  <2>1. /\ pc \in [Objects -> {"none", "taken", "flushes", "live", "check", "search", "blocked", "returns"}]
        /\ clear \in [Objects -> 0 .. next] /\ until \in [Objects -> 0 .. next]
        /\ zeroed \in [Allocs -> BOOLEAN]
        /\ work \in [Allocs -> {"none", "flushes", "queued", "submitted"}]
    BY DEF SeqInv, TypeOK
  <2>2. next \in Nat /\ sem \in Nat /\ sem <= Submitted
    BY GpuFacts DEF GpuInv
  <2>3. sem <= next /\ (mutex # "waits" => sem < next)
    BY ONLY <2>2 DEF Submitted
  <2> QED BY ONLY <2>1, <2>2, <2>3
\* What is neither listed nor comes to the list changes the rest only.
<1> DEFINE Same == /\ Range(transfers') = Range(transfers)
                   /\ (mutex' = "waits" <=> mutex = "waits") /\ next' = next
<1>1. ASSUME Same  PROVE \A o : (InList(o)' <=> InList(o)) /\ (Listed(o)' <=> Listed(o))
  BY <1>1 DEF InList, Listed, Clear
<1>2. \A o : Clear(o).of = o /\ \A r : Write(r) # Clear(o)
  <2>1. \A x : Clear(x).op = "clear" /\ Clear(x).of = x /\ Write(x).op = "write"
    BY DEF Clear, Write
  <2> QED BY <2>1
<1>3. ASSUME NEW a \in Allocs, NEW z \in Kinds, Suballocate(a, z)  PROVE OwnerInv'
  <2>1. /\ Range(transfers') = Range(transfers) /\ mutex' = mutex /\ next' = next
        /\ until' = until /\ work' = work /\ a \in Subs /\ pc[a] = "none" /\ pc[Chunk] \in {"none", "live"}
        /\ pc' = [pc EXCEPT ![a] = IF z THEN "taken" ELSE "live", ![Chunk] = "live"]
        /\ clear' = [clear EXCEPT ![a] = clear[Chunk]] /\ zeroed' = [zeroed EXCEPT ![a] = z]
    BY <1>3 DEF Suballocate, AllocatorFree, flushVars, listVars
  <2>2. z \in BOOLEAN
    BY KindsAssumption
  <2>3. \A o : (InList(o)' <=> InList(o)) /\ (Listed(o)' <=> Listed(o))
    BY <1>1, <2>1
  <2> QED BY <1>0, <2>1, <2>2, <2>3 DEF OwnerInv, Busy, WaitIsSubmitted
<1>4. ASSUME NEW a \in Allocs, NEW z \in Kinds, Allocate(a, z)  PROVE OwnerInv'
  <2>1. /\ Range(transfers') = Range(transfers) /\ mutex' = mutex /\ next' = next
        /\ until' = until /\ work' = work /\ a \in Dedicated /\ pc[a] = "none"
        /\ pc' = [pc EXCEPT ![a] = IF z THEN "taken" ELSE "live"]
        /\ clear' = [clear EXCEPT ![a] = 0] /\ zeroed' = [zeroed EXCEPT ![a] = z]
    BY <1>4 DEF Allocate, At, flushVars, listVars
  <2>2. z \in BOOLEAN
    BY KindsAssumption
  <2>3. \A o : (InList(o)' <=> InList(o)) /\ (Listed(o)' <=> Listed(o))
    BY <1>1, <2>1
  <2> QED BY <1>0, <2>1, <2>2, <2>3 DEF OwnerInv, Busy, WaitIsSubmitted
<1>5. ASSUME NEW a \in Allocs, FillAllocation(a)  PROVE OwnerInv'
  <2>1. /\ pc[a] = "taken" /\ mutex = "free" /\ next' = next /\ mutex' # "waits"
        /\ Range(transfers') = Range(transfers) \cup {Clear(a)}
        /\ clear' = [o \in Objects |-> IF o = a \/ (o = Chunk /\ a \in Subs) THEN next ELSE clear[o]]
        /\ pc' = [pc EXCEPT ![a] = IF mutex' = "free" THEN "live" ELSE "flushes"]
        /\ until' = until /\ zeroed' = zeroed /\ work' = work
    BY <1>5, RangeOfAppend DEF FillAllocation, Execute, At, SeqInv
  <2>2. \A o : (InList(o)' <=> InList(o) \/ o = a) /\ (Listed(o)' <=> InList(o)') /\ (Listed(o) <=> InList(o))
    BY <1>2, <2>1 DEF InList, Listed, Clear
  <2>3. work[a] = "none"
    BY <1>0, <2>1 DEF OwnerInv
  <2> QED BY <1>0, <2>1, <2>2, <2>3 DEF OwnerInv, Busy, WaitIsSubmitted
<1>6. ASSUME NEW r \in Textures, WriteSubresource(r)  PROVE OwnerInv'
  <2>1. /\ mutex = "free" /\ next' = next /\ mutex' # "waits" /\ UNCHANGED objVars
        /\ Range(transfers') = Range(transfers) \cup {Write(r)}
    BY <1>6, RangeOfAppend DEF WriteSubresource, Execute, SeqInv
  <2>2. \A o : (InList(o)' <=> InList(o)) /\ (Listed(o)' <=> InList(o)) /\ (Listed(o) <=> InList(o))
    BY <1>2, <2>1 DEF InList, Listed, Clear
  <2> QED BY <2>1, <2>2 DEF OwnerInv, Busy, WaitIsSubmitted, objVars
<1>7. ASSUME NEW a \in Allocs, ExecuteCommandLists(a)  PROVE OwnerInv'
  <2>1. /\ pc[a] = "live" /\ work[a] = "none" /\ UNCHANGED <<pc, clear, until, zeroed, transfers, next>>
        /\ mutex = "free" /\ mutex' # "waits"
        /\ \/ transfers = <<>> /\ work' = [work EXCEPT ![a] = "queued"]
           \/ work' = [work EXCEPT ![a] = "flushes"]
    BY <1>7 DEF ExecuteCommandLists, listVars, flushVars
  <2>2. \A o : (InList(o)' <=> InList(o)) /\ (Listed(o)' <=> Listed(o))
    BY <1>1, <2>1
  <2>3. transfers = <<>> => \A o : ~InList(o)
    BY DEF InList, Range
  <2> QED BY <1>0, <2>1, <2>2, <2>3 DEF OwnerInv, Busy, WaitIsSubmitted
<1>8. ASSUME NEW a \in Allocs, FreeMemory(a)  PROVE OwnerInv'
  <2>1. /\ Range(transfers') = Range(transfers) /\ mutex' = mutex /\ next' = next
        /\ UNCHANGED <<clear, until, zeroed, work>> /\ pc[a] = "live" /\ work[a] = "none"
        /\ pc' = [pc EXCEPT ![a] = IF clear[a] = 0 THEN "returns" ELSE "check"]
    BY <1>8 DEF FreeMemory, At, flushVars, listVars
  <2>2. \A o : (InList(o)' <=> InList(o)) /\ (Listed(o)' <=> Listed(o))
    BY <1>1, <2>1
  <2>3. Listed(a) => clear[a] # 0
    BY <1>0 DEF OwnerInv, Listed
  <2> QED BY <1>0, <2>1, <2>2, <2>3 DEF OwnerInv, Busy, WaitIsSubmitted
<1>9. ASSUME NEW a \in Allocs, NEW q \in Queues, SubmitWork(a, q)  PROVE OwnerInv'
  <2>1. /\ Range(transfers') = Range(transfers) /\ mutex' = mutex /\ next' = next
        /\ UNCHANGED <<pc, clear, until, zeroed>> /\ work[a] = "queued"
        /\ work' = [work EXCEPT ![a] = "submitted"]
    BY <1>9 DEF SubmitWork, flushVars, listVars
  <2>2. \A o : (InList(o)' <=> InList(o)) /\ (Listed(o)' <=> Listed(o))
    BY <1>1, <2>1
  <2> QED BY <1>0, <2>1, <2>2 DEF OwnerInv, Busy, WaitIsSubmitted
<1>10. ASSUME NEW q \in Queues, GpuWork(q)  PROVE OwnerInv'
  <2>1. /\ Range(transfers') = Range(transfers) /\ mutex' = mutex /\ next' = next
        /\ UNCHANGED <<pc, clear, until, zeroed>>
        /\ work' = [work EXCEPT ![Head(gpuQueue[q]).of] = "none"]
    BY <1>10 DEF GpuWork, flushVars, listVars
  <2>2. \A o : (InList(o)' <=> InList(o)) /\ (Listed(o)' <=> Listed(o))
    BY <1>1, <2>1
  <2>3. \A b \in Allocs : work'[b] = work[b] \/ work'[b] = "none"
    BY <1>0, <2>1
  <2> QED BY <2>1, <2>2, <2>3 DEF OwnerInv, Busy, WaitIsSubmitted
<1>11. ASSUME Submit  PROVE OwnerInv'
  <2>1. UNCHANGED <<pc, clear, until, zeroed, work, transfers, next>> /\ mutex' = "waits"
    BY <1>11 DEF Submit, objVars, listVars
  <2>2. \A o : (InList(o)' <=> InList(o)) /\ ~Listed(o)'
    BY <2>1 DEF InList, Listed, Clear
  <2> QED BY <2>1, <2>2 DEF OwnerInv, Busy, WaitIsSubmitted
<1>12. ASSUME NEW recorded \in BOOLEAN, FlushFails(recorded)  PROVE OwnerInv'
  <2>1. /\ transfers' = transfers /\ mutex = "submit" /\ mutex' = "free" /\ next' = next
        /\ UNCHANGED <<clear, until, zeroed>>
        /\ pc' = [o \in Objects |-> IF o = flusher /\ pc[o] = "flushes" THEN "live" ELSE pc[o]]
        /\ work' = [a \in Allocs |-> IF a = flusher /\ work[a] = "flushes" THEN "none" ELSE work[a]]
    BY <1>12 DEF FlushFails, Resume, listVars
  <2>2. \A o : (InList(o)' <=> InList(o)) /\ (Listed(o)' <=> Listed(o))
    BY <1>1, <2>1
  <2> QED BY <1>0, <2>1, <2>2 DEF OwnerInv, Busy, WaitIsSubmitted
<1>13. ASSUME FlushEnds  PROVE OwnerInv'
  <2>1. /\ Range(transfers') = {} /\ next' = next + 1
        /\ UNCHANGED <<clear, until, zeroed>>
        /\ pc' = [o \in Objects |-> IF o = flusher /\ pc[o] = "flushes" THEN "live" ELSE pc[o]]
        /\ work' = [a \in Allocs |-> IF a = flusher /\ work[a] = "flushes" THEN "queued" ELSE work[a]]
    BY <1>13 DEF FlushEnds, Resume, Range
  <2>2. \A o : ~InList(o)' /\ ~Listed(o)'
    BY <2>1 DEF InList, Listed
  <2>3. \A o \in Objects : clear'[o] # next' /\ (until[o] < next => until'[o] < next')
    BY <1>0, <2>1
  <2> QED BY <1>0, <2>1, <2>2, <2>3 DEF OwnerInv, Busy, WaitIsSubmitted
<1>14. ASSUME NEW o \in Objects, CheckDone(o)  PROVE OwnerInv'
  <2>1. /\ Range(transfers') = Range(transfers) /\ mutex' = mutex /\ next' = next
        /\ UNCHANGED <<clear, until, zeroed, work>> /\ pc[o] = "check"
        /\ pc' = [pc EXCEPT ![o] = IF sem >= clear[o] THEN "returns" ELSE "search"]
    BY <1>14 DEF CheckDone, At, flushVars, listVars
  <2>2. \A p : (InList(p)' <=> InList(p)) /\ (Listed(p)' <=> Listed(p))
    BY <1>1, <2>1
  <2>3. o \in Allocs => (Listed(o) => clear[o] > sem)
    BY <1>0 DEF OwnerInv, Listed
  <2> QED BY <1>0, <2>1, <2>2, <2>3 DEF OwnerInv, Busy, WaitIsSubmitted
<1>15. ASSUME NEW o \in Objects, TakeFromList(o)  PROVE OwnerInv'
  <2>1. /\ mutex = "free" /\ mutex' = "free" /\ next' = next
        /\ UNCHANGED <<clear, until, zeroed, work>> /\ pc[o] = "search"
        /\ pc' = [pc EXCEPT ![o] = "returns"]
    BY <1>15 DEF TakeFromList, At, flushVars
  <2>2. o \in Allocs /\ Range(transfers') = Range(transfers) \ {Clear(o)}
    BY <1>15, TakenFromList
  <2>3. \A p : (InList(p)' <=> InList(p) /\ p # o) /\ (Listed(p)' <=> InList(p)') /\ (Listed(p) <=> InList(p))
    BY <1>2, <2>1, <2>2 DEF InList, Listed, Clear
  <2> QED BY <1>0, <2>1, <2>2, <2>3 DEF OwnerInv, Busy, WaitIsSubmitted
<1>16. ASSUME NEW o \in Objects, NotInList(o)  PROVE OwnerInv'
  <2>1. /\ Range(transfers') = Range(transfers) /\ mutex' = mutex /\ next' = next /\ mutex = "free"
        /\ UNCHANGED <<clear, zeroed, work>> /\ pc[o] = "search" /\ ~InList(o)
        /\ pc' = [pc EXCEPT ![o] = IF o \in Subs THEN "returns" ELSE "blocked"]
        /\ until' = [until EXCEPT ![o] = IF o \in Subs THEN 0
                                         ELSE IF clear[o] = next THEN next - 1 ELSE clear[o]]
    BY <1>16 DEF NotInList, At, flushVars, listVars, InList
  <2>2. \A p : (InList(p)' <=> InList(p)) /\ (Listed(p)' <=> InList(p)) /\ (Listed(p) <=> InList(p))
    BY <1>1, <2>1 DEF Listed, InList
  <2>3. pc'[o] = "blocked" => until'[o] < next'
    BY <1>0, <2>1
  <2> QED BY <1>0, <2>1, <2>2, <2>3 DEF OwnerInv, Busy, WaitIsSubmitted
<1>17. ASSUME NEW o \in Objects, Waited(o)  PROVE OwnerInv'
  <2>1. /\ Range(transfers') = Range(transfers) /\ mutex' = mutex /\ next' = next
        /\ UNCHANGED <<clear, zeroed, work>> /\ pc[o] = "blocked"
        /\ pc' = [pc EXCEPT ![o] = "returns"] /\ until' = [until EXCEPT ![o] = 0]
    BY <1>17 DEF Waited, At, flushVars, listVars
  <2>2. \A p : (InList(p)' <=> InList(p)) /\ (Listed(p)' <=> Listed(p))
    BY <1>1, <2>1
  <2> QED BY <1>0, <2>1, <2>2 DEF OwnerInv, Busy, WaitIsSubmitted
<1>18. ASSUME NEW a \in Objects, ReturnRange(a)  PROVE OwnerInv'
  <2>1. /\ Range(transfers') = Range(transfers) /\ mutex' = mutex /\ next' = next
        /\ UNCHANGED <<clear, until, zeroed, work>> /\ a \in Subs /\ pc[a] = "returns"
        /\ pc' = [pc EXCEPT ![a] = "none",
                            ![Chunk] = IF ~IsFree(free_ranges', ChunkSize) THEN "live"
                                       ELSE IF clear[Chunk] = 0 THEN "returns" ELSE "check"]
    BY <1>18 DEF ReturnRange, flushVars, listVars
  <2>2. \A p : (InList(p)' <=> InList(p)) /\ (Listed(p)' <=> Listed(p))
    BY <1>1, <2>1
  <2>3. ASSUME NEW b \in Subs, pc'[b] # "none"  PROVE pc'[Chunk] = "live"
    <3>1. pc'[Chunk] # "none"
      BY <1>0, <2>1
    <3>2. Describes(free_ranges', Rest') /\ ChunkSize \in Nat
      BY <3>1, SizesAssumption DEF RangeInv
    <3>3. PICK r : r = free_ranges'
      OBVIOUS
    <3>4. PICK free : free = Rest'
      OBVIOUS
    <3>5. offset'[b] \in 0 .. ChunkSize - 1 /\ offset'[b] \notin free
      <4>1. /\ offset'[b] \in Nat /\ offset'[b] + SizeOf[b] <= ChunkSize /\ SizeOf[b] \in Nat \ {0}
        BY <2>3, SizesAssumption DEF RangeInv
      <4>2. offset'[b] \in Cells(offset'[b], SizeOf[b])
        BY <4>1 DEF Cells
      <4>3. offset'[b] \in MemoryOf(b)' /\ b \in Held'
        BY <2>3, <4>2 DEF MemoryOf, Held
      <4> QED BY <3>2, <3>4, <4>1, <4>3 DEF Rest
    <3>6. Describes(r, free) /\ free \subseteq 0 .. ChunkSize - 1
      BY <3>2, <3>3, <3>4 DEF Rest
    <3>7. ~IsFree(r, ChunkSize)
      <4>1. ~(0 .. ChunkSize - 1 \subseteq free)
        BY ONLY <3>5
      <4>2. ChunkSize \in Nat
        BY <3>2
      <4> QED BY ONLY <3>6, <4>1, <4>2, NothingInFreeChunk
    <3> QED BY <1>0, <2>1, <3>3, <3>7
  <2>4. /\ pc'[a] = "none" /\ \A b \in Allocs \ {a} : pc'[b] = pc[b]
        /\ ~Listed(a) /\ pc'[Chunk] # "blocked"
    BY <1>0, <2>1 DEF OwnerInv, Busy
  <2> QED BY <1>0, <2>1, <2>2, <2>3, <2>4 DEF OwnerInv, Busy, WaitIsSubmitted
<1>19. ASSUME NEW o \in Objects, ReturnMemory(o)  PROVE OwnerInv'
  <2>1. /\ Range(transfers') = Range(transfers) /\ mutex' = mutex /\ next' = next
        /\ UNCHANGED <<until, zeroed, work>> /\ o \notin Subs /\ pc[o] = "returns"
        /\ pc' = [pc EXCEPT ![o] = "none"] /\ clear' = [clear EXCEPT ![o] = 0]
    BY <1>19 DEF ReturnMemory, At, flushVars, listVars
  <2>2. \A p : (InList(p)' <=> InList(p)) /\ (Listed(p)' <=> Listed(p))
    BY <1>1, <2>1
  <2>3. \A a \in Allocs : Listed(a) => a # o
    BY <2>1 DEF OwnerInv, Busy
  <2>4. o = Chunk => \A a \in Subs : pc[a] = "none" /\ ~Listed(a)
    BY <2>1 DEF OwnerInv, Busy
  <2> QED BY <1>0, <2>1, <2>2, <2>3, <2>4 DEF OwnerInv, Busy, WaitIsSubmitted
<1>20. ASSUME \/ GpuTransfers \/ Track \/ \E q \in Queues : AddWait(q)
              \/ (\E r \in Textures : ReleaseTexture(r)) \/ UNCHANGED vars
       PROVE  OwnerInv'
  <2>1. UNCHANGED <<pc, clear, until, zeroed, work, transfers, mutex, next>>
    BY <1>20 DEF GpuTransfers, Track, TakeBatch, ReleaseTracked, AddWait, ReleaseTexture, vars,
                 objVars, flushVars, listVars
  <2>2. \A p : (InList(p)' <=> InList(p)) /\ (Listed(p)' <=> Listed(p))
    BY <1>1, <2>1
  <2> QED BY <2>1, <2>2 DEF OwnerInv, Busy, WaitIsSubmitted
<1>21. CASE \E a \in Allocs : \/ \E z \in Kinds : Suballocate(a, z) \/ Allocate(a, z)
                              \/ FillAllocation(a) \/ ExecuteCommandLists(a) \/ FreeMemory(a)
                              \/ \E q \in Queues : SubmitWork(a, q)
  BY <1>3, <1>4, <1>5, <1>7, <1>8, <1>9, <1>21
<1>22. CASE Gpu \/ Flush \/ Track
  BY <1>10, <1>11, <1>12, <1>13, <1>20, <1>22 DEF Gpu, Flush
<1>23. CASE \E o \in Objects : Free(o)
  BY <1>14, <1>15, <1>16, <1>17, <1>18, <1>19, <1>23 DEF Free
<1> QED BY <1>6, <1>20, <1>21, <1>22, <1>23 DEF Next

-----------------------------------------------------------------------------
(* The list.                                                               *)

\* A transfer comes to the end of the list.
LEMMA ListGrows ==
  ASSUME SeqInv, ListInv, NEW t, transfers' = Append(transfers, t),
         t.op = "clear" => t \notin Range(transfers),
         pending' = pending + (IF t.op = "clear" THEN 1 ELSE 0)
  PROVE  ListInv'
<1> DEFINE n == Len(transfers)
<1>1. /\ DOMAIN transfers = 1 .. n /\ n \in Nat /\ DOMAIN transfers' = 1 .. (n + 1)
      /\ \A i \in 1 .. n : transfers'[i] = transfers[i]
      /\ transfers'[n + 1] = t
  BY AppendElements DEF SeqInv
<1> HIDE DEF n
<1>2. ASSUME NEW i \in DOMAIN transfers', NEW j \in DOMAIN transfers', i # j, transfers'[i].op = "clear"
      PROVE  transfers'[i] # transfers'[j]
  <2>1. \A k \in 1 .. n : transfers[k] \in Range(transfers)
    BY <1>1 DEF Range
  <2>2. CASE i \in 1 .. n /\ j \in 1 .. n
    BY <1>1, <1>2, <2>2 DEF ListInv
  <2>3. CASE i = n + 1 /\ j \in 1 .. n
    BY <1>1, <1>2, <2>1, <2>3
  <2>4. CASE i \in 1 .. n /\ j = n + 1
    <3>1. transfers'[i] = transfers[i] /\ transfers'[j] = t
      BY <1>1, <2>4
    <3>2. transfers[i] = t => t.op = "clear" /\ t \in Range(transfers)
      BY <1>2, <2>1, <2>4, <3>1
    <3> QED BY <3>1, <3>2
  <2> QED BY <1>1, <1>2, <2>2, <2>3, <2>4
<1> DEFINE I == {i \in DOMAIN transfers : transfers[i].op = "clear"}
           J == {i \in DOMAIN transfers' : transfers'[i].op = "clear"}
<1>3. I \in SUBSET (1 .. n) /\ J \in SUBSET (1 .. (n + 1)) /\ \A i \in 1 .. n : i \in J <=> i \in I
  BY <1>1
<1>4. n + 1 \in J <=> t.op = "clear"
  BY <1>1
<1>5. pending = Cardinality(I)
  BY DEF ListInv, PendingIsListed
<1> HIDE DEF I, J
<1>6. Cardinality(J) = Cardinality(I) + (IF n + 1 \in J THEN 1 ELSE 0)
  BY <1>1, <1>3, IndicesOfAppend
<1>7. pending' = Cardinality(J)
  BY <1>4, <1>5, <1>6
<1> QED BY <1>2, <1>7 DEF ListInv, PendingIsListed, J

LEMMA ListInvStep ==
  ASSUME SeqInv, OwnerInv, ListInv, [Next]_vars
  PROVE  ListInv'
<1>0. \A x : Clear(x).op = "clear" /\ Write(x).op = "write"
  BY DEF Clear, Write
<1>1. ASSUME NEW a \in Allocs, FillAllocation(a)  PROVE ListInv'
  <2>1. mutex = "free" /\ pc[a] = "taken" /\ transfers' = Append(transfers, Clear(a)) /\ pending' = pending + 1
    BY <1>1 DEF FillAllocation, Execute
  <2>2. Clear(a) \notin Range(transfers)
    BY <2>1 DEF OwnerInv, Listed, Busy
  <2> QED BY <1>0, <2>1, <2>2, ListGrows
<1>2. ASSUME NEW r \in Textures, WriteSubresource(r)  PROVE ListInv'
  <2>1. transfers' = Append(transfers, Write(r)) /\ pending' = pending + 0
    BY <1>2 DEF WriteSubresource, Execute
  <2> QED BY <1>0, <2>1, ListGrows
<1>3. ASSUME FlushEnds  PROVE ListInv'
  <2>1. transfers' = <<>> /\ pending' = 0
    BY <1>3 DEF FlushEnds
  <2>2. {i \in DOMAIN transfers' : transfers'[i].op = "clear"} = {}
    BY <2>1
  <2> QED BY <2>1, <2>2, FS_EmptySet DEF ListInv, PendingIsListed
<1>4. ASSUME NEW o \in Objects, TakeFromList(o)  PROVE ListInv'
  <2>1. PICK i \in DOMAIN transfers : transfers[i] = Clear(o) /\ transfers' = Remove(i)
    BY <1>4, TakenFromList
  <2>2. /\ DOMAIN transfers' = 1 .. Len(transfers) - 1
        /\ DOMAIN transfers = 1 .. Len(transfers) /\ Len(transfers) \in Nat
        /\ \A j \in DOMAIN transfers' : transfers'[j] = transfers[IF j = i THEN Len(transfers) ELSE j]
    BY <2>1, RemoveOk DEF SeqInv
  <2>3. Cardinality({j \in DOMAIN transfers' : transfers'[j].op = "clear"}) =
          Cardinality({j \in DOMAIN transfers : transfers[j].op = "clear"}) - 1
    BY <1>0, <2>1, RemoveCount DEF SeqInv
  <2>4. pending' = pending - 1
    BY <1>4 DEF TakeFromList
  <2>5. ASSUME NEW j \in DOMAIN transfers', NEW k \in DOMAIN transfers', j # k, transfers'[j].op = "clear"
        PROVE  transfers'[j] # transfers'[k]
    <3> DEFINE From(x) == IF x = i THEN Len(transfers) ELSE x
    <3>1. From(j) # From(k) /\ From(j) \in DOMAIN transfers /\ From(k) \in DOMAIN transfers
      BY <2>2, <2>5
    <3>2. transfers'[j] = transfers[From(j)] /\ transfers'[k] = transfers[From(k)]
      BY <2>2
    <3> HIDE DEF From
    <3> QED BY <2>5, <3>1, <3>2 DEF ListInv
  <2> QED BY <2>3, <2>4, <2>5 DEF ListInv, PendingIsListed
<1>5. ASSUME UNCHANGED <<transfers, pending>>  PROVE ListInv'
  BY <1>5 DEF ListInv, PendingIsListed
<1> USE DEF listVars
<1>6. ASSUME NEW a \in Allocs, \E z \in Kinds : Suballocate(a, z) \/ Allocate(a, z)
      PROVE  UNCHANGED <<transfers, pending>>
  BY <1>6 DEF Suballocate, Allocate
<1>7. ASSUME NEW a \in Allocs,
             ExecuteCommandLists(a) \/ FreeMemory(a) \/ \E q \in Queues : SubmitWork(a, q)
      PROVE  UNCHANGED <<transfers, pending>>
  BY <1>7 DEF ExecuteCommandLists, FreeMemory, SubmitWork
<1>8. ASSUME NEW r \in Textures, ReleaseTexture(r)  PROVE UNCHANGED <<transfers, pending>>
  BY <1>8 DEF ReleaseTexture
<1>9. ASSUME \/ Gpu \/ Track \/ Submit \/ (\E q \in Queues : AddWait(q))
             \/ \E recorded \in BOOLEAN : FlushFails(recorded)
      PROVE  UNCHANGED <<transfers, pending>>
  BY <1>9 DEF Gpu, GpuTransfers, GpuWork, Track, TakeBatch, ReleaseTracked, Submit, AddWait, FlushFails
<1>10. ASSUME NEW o \in Objects,
              CheckDone(o) \/ NotInList(o) \/ Waited(o) \/ ReturnRange(o) \/ ReturnMemory(o)
       PROVE  UNCHANGED <<transfers, pending>>
  BY <1>10 DEF CheckDone, NotInList, Waited, ReturnRange, ReturnMemory
<1>11. CASE \E a \in Allocs : \/ \E z \in Kinds : Suballocate(a, z) \/ Allocate(a, z)
                              \/ FillAllocation(a) \/ ExecuteCommandLists(a) \/ FreeMemory(a)
                              \/ \E q \in Queues : SubmitWork(a, q)
  BY <1>1, <1>5, <1>6, <1>7, <1>11
<1>12. CASE \E r \in Textures : WriteSubresource(r) \/ ReleaseTexture(r)
  BY <1>2, <1>5, <1>8, <1>12
<1>13. CASE Gpu \/ Flush \/ Track
  BY <1>3, <1>5, <1>9, <1>13 DEF Flush
<1>14. CASE \E o \in Objects : Free(o)
  BY <1>4, <1>5, <1>10, <1>14 DEF Free
<1>15. CASE UNCHANGED vars
  BY <1>5, <1>15 DEF vars
<1> QED BY <1>11, <1>12, <1>13, <1>14, <1>15 DEF Next

-----------------------------------------------------------------------------
(* References to textures.                                                 *)

LEMMA TrackedConcat ==
  ASSUME NEW s, IsSeq(s), NEW t, IsSeq(t), NEW r
  PROVE  Cardinality(Tracked(s \o t, r)) = Cardinality(Tracked(s, r)) + Cardinality(Tracked(t, r))
<1> DEFINE c == s \o t
           m == Len(s)
           n == Len(t)
<1>1. /\ m \in Nat /\ n \in Nat /\ DOMAIN s = 1 .. m /\ DOMAIN t = 1 .. n
      /\ DOMAIN c = 1 .. (m + n)
      /\ \A i \in 1 .. m : c[i] = s[i]
      /\ \A i \in 1 .. n : c[m + i] = t[i]
  BY ConcatElements
<1> HIDE DEF c, m, n
<1> DEFINE J == Tracked(c, r)
<1>2. J \in SUBSET (1 .. (m + n))
  BY <1>1 DEF Tracked
<1>3. {i \in 1 .. m : i \in J} = Tracked(s, r)
  BY <1>1 DEF Tracked
<1>4. {i \in 1 .. n : m + i \in J} = Tracked(t, r)
  BY <1>1 DEF Tracked
<1> HIDE DEF J
<1>5. Cardinality(J) = Cardinality({i \in 1 .. m : i \in J}) + Cardinality({i \in 1 .. n : m + i \in J})
  BY <1>1, <1>2, IndicesOfConcat
<1> QED BY <1>3, <1>4, <1>5 DEF J, c

LEMMA TrackedTail ==
  ASSUME NEW s, IsSeq(s), s # <<>>, NEW r
  PROVE  Cardinality(Tracked(Tail(s), r)) = Cardinality(Tracked(s, r)) - (IF Head(s).of = r THEN 1 ELSE 0)
<1> DEFINE t == Tail(s)
           n == Len(s)
<1>1. /\ n \in Nat \ {0} /\ DOMAIN s = 1 .. n /\ DOMAIN t = 1 .. (n - 1) /\ Head(s) = s[1]
      /\ \A i \in 1 .. (n - 1) : t[i] = s[i + 1]
  BY TailElements
<1> HIDE DEF t, n
<1> DEFINE I == Tracked(s, r)
           J == Tracked(t, r)
<1>2. I \in SUBSET (1 .. n) /\ J \in SUBSET (1 .. (n - 1))
  BY <1>1 DEF Tracked
<1>3. \A i \in 1 .. (n - 1) : i \in J <=> i + 1 \in I
  BY <1>1 DEF Tracked
<1>4. 1 \in I <=> Head(s).of = r
  BY <1>1 DEF Tracked
<1> HIDE DEF I, J
<1>5. Cardinality(J) = Cardinality(I) - (IF 1 \in I THEN 1 ELSE 0)
  BY <1>1, <1>2, <1>3, IndicesOfTail
<1>6. Cardinality(Tracked(t, r)) = Cardinality(Tracked(s, r)) - (IF Head(s).of = r THEN 1 ELSE 0)
  BY <1>4, <1>5 DEF I, J
<1> QED BY <1>6 DEF t

LEMMA TrackedIsNat ==
  ASSUME NEW s, IsSeq(s), NEW r
  PROVE  Cardinality(Tracked(s, r)) \in Nat
<1>1. DOMAIN s = 1 .. Len(s) /\ Len(s) \in Nat
  BY AppendElements
<1>2. Tracked(s, r) \in SUBSET (1 .. Len(s))
  BY <1>1 DEF Tracked
<1> QED BY <1>1, <1>2, IndicesAreFinite

\* What the thread that tracks resources gets.
Counted ==
  \A r \in Textures : refs[r] = Cardinality(Tracked(tracked, r)) + Cardinality(Tracked(batch, r))

Entries(list) == \A i \in DOMAIN list : list[i].of \in Textures /\ list[i].value \in Nat

LEMMA TrackWritesOk ==
  ASSUME SeqInv, RefInv, TrackWrites
  PROVE  /\ Counted' /\ Entries(tracked') /\ IsSeq(tracked') /\ batch' = batch
         /\ Range(tracked) \subseteq Range(tracked')
         /\ \A t \in Range(transfers) : t.op = "write" =>
              \E e \in Range(tracked') : e.of = t.of /\ e.value = next
<1> DEFINE w   == WritesIn(transfers)
           new == [i \in DOMAIN w |-> [of |-> w[i].of, value |-> next]]
<1>1. /\ IsSeq(w)
      /\ \A i \in DOMAIN w : w[i].op = "write" /\ \E j \in DOMAIN transfers : w[i] = transfers[j]
      /\ \A j \in DOMAIN transfers : transfers[j].op = "write" => \E i \in DOMAIN w : w[i] = transfers[j]
  BY WritesOfList DEF SeqInv
<1>2. /\ tracked' = tracked \o new /\ batch' = batch
      /\ refs' = [r \in Textures |-> refs[r] + Cardinality({i \in DOMAIN w : w[i].of = r})]
  BY DEF TrackWrites, Writes
<1>3. \A i \in DOMAIN w : w[i].of \in Textures
  BY <1>1, ListedTransfers
<1>4. DOMAIN w = 1 .. Len(w) /\ Len(w) \in Nat
  BY <1>1, AppendElements
<1> HIDE DEF w
<1>5. DOMAIN new = DOMAIN w /\ \A i \in DOMAIN new : new[i].of = w[i].of /\ new[i].value = next
  OBVIOUS
<1>6. IsSeq(new)
  <2> DEFINE n == Len(w)
             S == {[of |-> w[i].of, value |-> next] : i \in DOMAIN w}
  <2>1. new \in [1 .. n -> S]
    BY <1>4
  <2>2. n \in Nat
    BY <1>4
  <2> HIDE DEF n, S, new
  <2>3. new \in Seq(S)
    BY <2>1, <2>2
  <2> QED BY <2>3 DEF IsSeq
<1> HIDE DEF new
<1>7. next \in Nat /\ IsSeq(tracked) /\ IsSeq(batch)
  BY DEF SeqInv, TypeOK
<1>8. /\ IsSeq(tracked')
      /\ Len(tracked) \in Nat /\ DOMAIN tracked = 1 .. Len(tracked)
      /\ DOMAIN tracked' = 1 .. (Len(tracked) + Len(new)) /\ DOMAIN new = 1 .. Len(new) /\ Len(new) \in Nat
      /\ \A i \in 1 .. Len(tracked) : tracked'[i] = tracked[i]
      /\ \A i \in 1 .. Len(new) : tracked'[Len(tracked) + i] = new[i]
      /\ \A i \in DOMAIN tracked' : \/ i \in DOMAIN tracked /\ tracked'[i] = tracked[i]
                                    \/ i - Len(tracked) \in DOMAIN new /\ tracked'[i] = new[i - Len(tracked)]
  <2> DEFINE c == tracked \o new
  <2>1. IsSeq(tracked) /\ IsSeq(new)
    BY <1>6, <1>7
  <2>2. /\ IsSeq(c) /\ Len(tracked) \in Nat /\ Len(new) \in Nat
        /\ DOMAIN tracked = 1 .. Len(tracked) /\ DOMAIN new = 1 .. Len(new)
        /\ DOMAIN c = 1 .. (Len(tracked) + Len(new))
        /\ \A i \in 1 .. Len(tracked) : c[i] = tracked[i]
        /\ \A i \in 1 .. Len(new) : c[Len(tracked) + i] = new[i]
        /\ \A i \in DOMAIN c : \/ i \in DOMAIN tracked /\ c[i] = tracked[i]
                               \/ i - Len(tracked) \in DOMAIN new /\ c[i] = new[i - Len(tracked)]
    BY ONLY <2>1, ConcatElements
  <2>3. tracked' = c
    BY <1>2
  <2> HIDE DEF c
  <2> QED BY <2>2, <2>3
<1>9. Counted'
  <2> SUFFICES ASSUME NEW r \in Textures
               PROVE  refs'[r] = Cardinality(Tracked(tracked', r)) + Cardinality(Tracked(batch', r))
    BY DEF Counted, Tracked
  <2>1. {i \in DOMAIN w : w[i].of = r} = Tracked(new, r)
    BY <1>5 DEF Tracked
  <2>2. refs[r] = Cardinality(Tracked(tracked, r)) + Cardinality(Tracked(batch, r))
    BY DEF RefInv
  <2>3. Cardinality(Tracked(tracked', r)) = Cardinality(Tracked(tracked, r)) + Cardinality(Tracked(new, r))
    BY <1>2, <1>6, <1>7, TrackedConcat
  <2>4. /\ Cardinality(Tracked(tracked, r)) \in Nat /\ Cardinality(Tracked(new, r)) \in Nat
        /\ Cardinality(Tracked(batch, r)) \in Nat
    BY <1>6, <1>7, TrackedIsNat
  <2>5. refs'[r] = refs[r] + Cardinality(Tracked(new, r))
    BY <1>2, <2>1
  <2> QED BY <1>2, <2>2, <2>3, <2>4, <2>5
<1>10. Entries(tracked')
  BY <1>3, <1>5, <1>7, <1>8 DEF RefInv, Entries
<1>11. Range(tracked) \subseteq Range(tracked')
  <2>1. \A i \in DOMAIN tracked : i \in DOMAIN tracked' /\ tracked'[i] = tracked[i]
    BY <1>8
  <2> QED BY <2>1 DEF Range
<1>12. ASSUME NEW t \in Range(transfers), t.op = "write"
       PROVE  \E e \in Range(tracked') : e.of = t.of /\ e.value = next
  <2>1. PICK j \in DOMAIN transfers : t = transfers[j]
    BY DEF Range
  <2>2. PICK i \in DOMAIN w : w[i] = t
    BY <1>1, <1>12, <2>1
  <2>3. i \in 1 .. Len(new)
    BY <1>5, <1>8
  <2>4. Len(tracked) + i \in DOMAIN tracked' /\ tracked'[Len(tracked) + i] = new[i]
    BY <1>8, <2>3
  <2> QED BY <1>5, <2>2, <2>4 DEF Range
<1> QED BY <1>2, <1>8, <1>9, <1>10, <1>11, <1>12

\* The tracking thread holds what the GPU still writes.
WritesHeld ==
  \A i \in DOMAIN onGpu : \A t \in Range(onGpu[i].ops) : t.op = "write" =>
    \E e \in Range(tracked) \cup Range(batch) : e.of = t.of /\ e.value >= onGpu[i].value

LEMMA RefInvParts ==
  RefInv <=> Counted /\ Entries(tracked) /\ Entries(batch) /\ WritesHeld
BY DEF RefInv, Counted, Entries, WritesHeld

LEMMA RefInvStep ==
  ASSUME SeqInv, GpuInv, RefInv, [Next]_vars
  PROVE  RefInv'
<1>0. /\ Counted /\ Entries(tracked) /\ Entries(batch) /\ WritesHeld
      /\ (Counted' /\ Entries(tracked') /\ Entries(batch') /\ WritesHeld' => RefInv')
      /\ next \in Nat /\ IsSeq(batch) /\ IsSeq(tracked)
  BY RefInvParts DEF RefInv, Counted, Entries, WritesHeld, SeqInv, TypeOK
<1>1. ASSUME UNCHANGED <<tracked, batch, refs, onGpu>>  PROVE RefInv'
  BY <1>0, <1>1 DEF RefInv, Tracked
<1>2. ASSUME UNCHANGED onGpu, Range(tracked) \cup Range(batch) \subseteq Range(tracked') \cup Range(batch')
      PROVE  WritesHeld'
  BY <1>0, <1>2 DEF WritesHeld
<1>3. ASSUME Submit  PROVE RefInv'
  <2> DEFINE cells == UNION {MemoryOf(t.of) : t \in {u \in Range(transfers) : u.op = "clear"}}
             new   == [value |-> next, buffer |-> buffer, ops |-> transfers, cells |-> cells]
  <2>1. TrackWrites /\ onGpu' = Append(onGpu, new)
    BY <1>3 DEF Submit
  <2>2. new.value = next /\ new.ops = transfers
    OBVIOUS
  <2> HIDE DEF new
  <2>3. /\ DOMAIN onGpu = 1 .. Len(onGpu) /\ DOMAIN onGpu' = 1 .. Len(onGpu) + 1
        /\ \A i \in 1 .. Len(onGpu) : onGpu'[i] = onGpu[i]
        /\ onGpu'[Len(onGpu) + 1] = new /\ Len(onGpu) \in Nat
    BY <2>1, AppendElements DEF SeqInv
  <2>4. /\ Counted' /\ Entries(tracked') /\ batch' = batch /\ Range(tracked) \subseteq Range(tracked')
        /\ \A t \in Range(transfers) : t.op = "write" =>
             \E e \in Range(tracked') : e.of = t.of /\ e.value = next
    BY <2>1, TrackWritesOk
  <2>5. ASSUME NEW i \in DOMAIN onGpu', NEW t \in Range(onGpu'[i].ops), t.op = "write"
        PROVE  \E e \in Range(tracked') \cup Range(batch') : e.of = t.of /\ e.value >= onGpu'[i].value
    <3>1. CASE i \in 1 .. Len(onGpu)
      BY <1>0, <2>3, <2>4, <2>5, <3>1 DEF WritesHeld
    <3>2. CASE i = Len(onGpu) + 1
      <4>1. t \in Range(transfers) /\ onGpu'[i].value = next
        BY <2>2, <2>3, <2>5, <3>2
      <4>2. PICK e \in Range(tracked') : e.of = t.of /\ e.value = next
        BY <2>4, <2>5, <4>1
      <4> QED BY <1>0, <4>1, <4>2
    <3> QED BY <2>3, <3>1, <3>2
  <2>6. WritesHeld'
    BY <2>5 DEF WritesHeld
  <2> QED BY <1>0, <2>4, <2>6
<1>4. ASSUME NEW recorded \in BOOLEAN, FlushFails(recorded)  PROVE RefInv'
  <2>1. onGpu' = onGpu /\ (TrackWrites \/ UNCHANGED trackVars)
    BY <1>4 DEF FlushFails, gpuVars
  <2>2. CASE TrackWrites
    <3>1. /\ Counted' /\ Entries(tracked') /\ batch' = batch /\ Range(tracked) \subseteq Range(tracked')
      BY <2>2, TrackWritesOk
    <3> QED BY <1>0, <1>2, <2>1, <3>1
  <2>3. CASE UNCHANGED trackVars
    BY <1>1, <2>1, <2>3 DEF trackVars
  <2> QED BY <2>1, <2>2, <2>3
<1>5. ASSUME GpuTransfers  PROVE RefInv'
  <2>1. onGpu # <<>> /\ onGpu' = Tail(onGpu) /\ UNCHANGED <<tracked, batch, refs>>
    BY <1>5 DEF GpuTransfers, trackVars
  <2>2. /\ DOMAIN onGpu = 1 .. Len(onGpu) /\ DOMAIN onGpu' = 1 .. Len(onGpu) - 1
        /\ \A i \in 1 .. Len(onGpu) - 1 : onGpu'[i] = onGpu[i + 1]
        /\ Len(onGpu) \in Nat
    BY <2>1, TailElements DEF SeqInv
  <2>3. \A i \in DOMAIN onGpu' : \E j \in DOMAIN onGpu : onGpu'[i] = onGpu[j]
    BY <2>2
  <2>4. WritesHeld'
    BY <1>0, <2>1, <2>3 DEF WritesHeld
  <2>5. Counted' /\ Entries(tracked') /\ Entries(batch')
    BY <1>0, <2>1 DEF Counted, Tracked
  <2> QED BY <1>0, <2>4, <2>5
<1>6. ASSUME TakeBatch  PROVE RefInv'
  <2>1. batch = <<>> /\ batch' = tracked /\ tracked' = <<>> /\ UNCHANGED <<refs, onGpu>>
    BY <1>6 DEF TakeBatch, gpuVars
  <2>2. \A r : Tracked(<<>>, r) = {}
    BY DEF Tracked
  <2>3. Counted'
    <3> SUFFICES ASSUME NEW r \in Textures
                 PROVE  refs'[r] = Cardinality(Tracked(tracked', r)) + Cardinality(Tracked(batch', r))
      BY DEF Counted, Tracked
    <3>1. refs[r] = Cardinality(Tracked(tracked, r)) + Cardinality(Tracked(batch, r))
      BY <1>0 DEF Counted
    <3>2. Cardinality(Tracked(tracked, r)) \in Nat
      BY <1>0, TrackedIsNat
    <3>3. Tracked(batch, r) = {} /\ Tracked(tracked', r) = {} /\ Tracked(batch', r) = Tracked(tracked, r)
      BY <2>1, <2>2
    <3> QED BY <2>1, <3>1, <3>2, <3>3, FS_EmptySet
  <2>4. Entries(tracked') /\ Entries(batch')
    BY <1>0, <2>1 DEF Entries
  <2>5. Range(tracked) \cup Range(batch) \subseteq Range(tracked') \cup Range(batch')
    BY <2>1
  <2> QED BY <1>0, <1>2, <2>1, <2>3, <2>4, <2>5
<1>7. ASSUME ReleaseTracked  PROVE RefInv'
  <2>1. /\ batch # <<>> /\ sem >= Head(batch).value /\ batch' = Tail(batch)
        /\ refs' = [refs EXCEPT ![Head(batch).of] = @ - 1] /\ UNCHANGED <<tracked, onGpu>>
    BY <1>7 DEF ReleaseTracked, gpuVars
  <2>2. /\ DOMAIN batch = 1 .. Len(batch) /\ DOMAIN batch' = 1 .. Len(batch) - 1 /\ Head(batch) = batch[1]
        /\ \A i \in 1 .. Len(batch) - 1 : batch'[i] = batch[i + 1]
        /\ Len(batch) \in Nat \ {0}
    BY <1>0, <2>1, TailElements
  <2>3. Counted'
    <3> SUFFICES ASSUME NEW r \in Textures
                 PROVE  refs'[r] = Cardinality(Tracked(tracked', r)) + Cardinality(Tracked(batch', r))
      BY DEF Counted, Tracked
    <3>1. refs[r] = Cardinality(Tracked(tracked, r)) + Cardinality(Tracked(batch, r))
      BY <1>0 DEF Counted
    <3>2. Cardinality(Tracked(tracked, r)) \in Nat /\ Cardinality(Tracked(batch, r)) \in Nat
      BY <1>0, TrackedIsNat
    <3>3. Cardinality(Tracked(batch', r)) = Cardinality(Tracked(batch, r)) - (IF Head(batch).of = r THEN 1 ELSE 0)
      BY <1>0, <2>1, TrackedTail
    <3>4. refs'[r] = refs[r] - (IF Head(batch).of = r THEN 1 ELSE 0)
      <4>1. refs \in [Textures -> Nat]
        BY DEF SeqInv, TypeOK
      <4> QED BY <2>1, <4>1
    <3>5. tracked' = tracked
      BY <2>1
    <3> QED BY <3>1, <3>2, <3>3, <3>4, <3>5
  <2>4. Entries(tracked') /\ Entries(batch')
    BY <1>0, <2>1, <2>2 DEF Entries
  <2>5. ASSUME NEW e \in Range(batch), e.value > sem  PROVE e \in Range(batch')
    <3>1. PICK i \in DOMAIN batch : e = batch[i]
      BY DEF Range
    <3>2. sem \in Nat /\ batch[1].value \in Nat
      <4>1. 1 \in DOMAIN batch
        BY <2>2
      <4>2. batch[1].value \in Nat
        BY <1>0, <4>1 DEF Entries
      <4> QED BY <4>2, GpuFacts
    <3>3. i # 1
      <4>1. sem >= batch[1].value
        BY <2>1, <2>2
      <4> QED BY ONLY <2>5, <3>1, <3>2, <4>1
    <3>4. i - 1 \in DOMAIN batch' /\ batch'[i - 1] = e
      BY <2>2, <3>1, <3>3
    <3> QED BY <3>4 DEF Range
  <2>6. ASSUME NEW i \in DOMAIN onGpu, NEW t \in Range(onGpu[i].ops), t.op = "write"
        PROVE  \E e \in Range(tracked') \cup Range(batch') : e.of = t.of /\ e.value >= onGpu[i].value
    <3>1. PICK e \in Range(tracked) \cup Range(batch) : e.of = t.of /\ e.value >= onGpu[i].value
      BY <1>0, <2>6 DEF WritesHeld
    <3>2. e.value \in Nat
      BY <1>0 DEF Entries, Range
    <3>3. onGpu[i].value > sem /\ onGpu[i].value \in Nat /\ sem \in Nat
      BY GpuFacts
    <3>4. e.value > sem
      BY <3>1, <3>2, <3>3
    <3> QED BY <2>1, <2>5, <3>1, <3>4
  <2>7. WritesHeld'
    BY <2>1, <2>6 DEF WritesHeld
  <2> QED BY <1>0, <2>3, <2>4, <2>7
<1> DEFINE Same == UNCHANGED <<tracked, batch, refs, onGpu>>
<1> USE DEF trackVars, gpuVars
<1>8. ASSUME NEW a \in Allocs, \E z \in Kinds : Suballocate(a, z) \/ Allocate(a, z)  PROVE Same
  BY <1>8 DEF Suballocate, Allocate
<1>9. ASSUME NEW a \in Allocs,
             \/ FillAllocation(a) \/ ExecuteCommandLists(a) \/ FreeMemory(a)
             \/ \E q \in Queues : SubmitWork(a, q)
      PROVE  Same
  BY <1>9 DEF FillAllocation, ExecuteCommandLists, FreeMemory, SubmitWork
<1>10. ASSUME NEW r \in Textures, WriteSubresource(r) \/ ReleaseTexture(r)  PROVE Same
  BY <1>10 DEF WriteSubresource, ReleaseTexture
<1>11. ASSUME FlushEnds \/ \E q \in Queues : GpuWork(q) \/ AddWait(q)  PROVE Same
  BY <1>11 DEF FlushEnds, GpuWork, AddWait
<1>12. ASSUME NEW o \in Objects, Free(o)  PROVE Same
  BY <1>12 DEF Free, CheckDone, TakeFromList, NotInList, Waited, ReturnRange, ReturnMemory
<1> HIDE DEF Same
<1>13. Same => RefInv'
  BY <1>1 DEF Same
<1>14. CASE \E a \in Allocs : \/ \E z \in Kinds : Suballocate(a, z) \/ Allocate(a, z)
                              \/ FillAllocation(a) \/ ExecuteCommandLists(a) \/ FreeMemory(a)
                              \/ \E q \in Queues : SubmitWork(a, q)
  BY <1>8, <1>9, <1>13, <1>14
<1>15. CASE Gpu \/ Flush \/ Track
  BY <1>3, <1>4, <1>5, <1>6, <1>7, <1>11, <1>13, <1>15 DEF Gpu, Flush, Track
<1>16. CASE UNCHANGED vars
  BY <1>13, <1>16 DEF vars, Same
<1> QED BY <1>10, <1>12, <1>13, <1>14, <1>15, <1>16 DEF Next

-----------------------------------------------------------------------------
(* The VkQueues wait.                                                      *)

LEMMA GpuFrameQueues ==
  ASSUME QueueInv, UNCHANGED <<gpuQueue, next, onGpu, waits, offset, work, todo>>
  PROVE  QueueInv'
<1>1. \A q, v : Covers(q, v)' <=> Covers(q, v)
  BY DEF Covers
<1>2. \A k, a : Meets(k, a)' <=> Meets(k, a)
  BY DEF Meets, MemoryOf
<1> QED BY <1>1, <1>2 DEF QueueInv, JobsInv, JobsWait, QueuedLater, QueuesCover

\* A list or a flush changes what is queued.
LEMMA QueuedChanges ==
  ASSUME QueueInv, UNCHANGED <<gpuQueue, onGpu, waits, offset, todo>>,
         \A a \in Allocs : work[a] = "submitted" => work'[a] = "submitted",
         next \in Nat, next' \in Nat, next' >= next,
         \A k \in DOMAIN onGpu : onGpu[k].value < next',
         \A q \in Queues : \A k \in DOMAIN onGpu : Covers(q, onGpu[k].value)
  PROVE  QueueInv'
<1>1. \A q, v : Covers(q, v)' <=> Covers(q, v)
  BY DEF Covers
<1>2. \A k, a : Meets(k, a)' <=> Meets(k, a)
  BY DEF Meets, MemoryOf
<1>3. JobsInv'
  BY DEF QueueInv, JobsInv
<1>4. JobsWait'
  BY <1>2 DEF QueueInv, JobsWait
<1>5. QueuedLater'
  BY DEF QueuedLater
<1>6. QueuesCover'
  BY DEF QueuesCover, Covers
<1> QED BY <1>3, <1>4, <1>5, <1>6 DEF QueueInv

LEMMA QueueInvStep ==
  ASSUME SeqInv, OwnerInv, GpuInv, QueueInv, RangeInv, [Next]_vars
  PROVE  QueueInv'
<1>0. /\ work \in [Allocs -> {"none", "flushes", "queued", "submitted"}]
      /\ pc \in [Objects -> {"none", "taken", "flushes", "live", "check", "search", "blocked", "returns"}]
      /\ next \in Nat /\ waits \in [Queues -> 0 .. next] /\ sem \in Nat /\ todo \subseteq Queues
      /\ DOMAIN gpuQueue = Queues /\ \A q \in Queues : IsSeq(gpuQueue[q])
      /\ offset \in [Subs -> 0 .. ChunkSize - 1]
      /\ mutex # "waits" => todo = {}
  BY DEF SeqInv, TypeOK
<1>g. /\ DOMAIN onGpu = 1 .. Len(onGpu) /\ Len(onGpu) \in Nat
      /\ \A k \in DOMAIN onGpu : /\ onGpu[k].value \in Nat /\ onGpu[k].value <= next
                                 /\ onGpu[k].value > sem /\ onGpu[k].value = sem + k
                                 /\ mutex # "waits" => onGpu[k].value < next
  <2>1. /\ DOMAIN onGpu = 1 .. Len(onGpu) /\ Len(onGpu) \in Nat /\ Submitted \in Nat /\ Submitted <= next
        /\ mutex # "waits" => Submitted = next - 1
        /\ \A k \in DOMAIN onGpu : onGpu[k].value \in Nat /\ onGpu[k].value > sem /\ onGpu[k].value <= Submitted
    BY GpuFacts
  <2>2. \A k \in DOMAIN onGpu : onGpu[k].value = sem + k
    BY DEF GpuInv
  <2> QED BY <1>0, <2>1, <2>2
<1>c. ASSUME mutex # "waits"
      PROVE  \A q \in Queues : \A k \in DOMAIN onGpu : Covers(q, onGpu[k].value)
  BY <1>c, <1>g DEF QueueInv, QueuesCover
<1>1. ASSUME NEW a \in Allocs, NEW z \in Kinds, Suballocate(a, z)  PROVE QueueInv'
  <2>1. /\ UNCHANGED <<gpuQueue, next, onGpu, waits, work, todo>> /\ pc[a] = "none"
        /\ \A b \in Subs \ {a} : offset'[b] = offset[b]
    BY <1>0, <1>1 DEF Suballocate, listVars, gpuVars, queueVars, flushVars
  <2>2. \A b \in Allocs : work[b] # "none" => MemoryOf(b)' = MemoryOf(b)
    <3>1. work[a] = "none"
      BY <2>1 DEF OwnerInv
    <3> QED BY <2>1, <3>1 DEF MemoryOf, Cells
  <2>3. \A k \in DOMAIN onGpu, b \in Allocs : work[b] # "none" => (Meets(k, b)' <=> Meets(k, b))
    BY <2>1, <2>2 DEF Meets
  <2>4. JobsInv' /\ QueuesCover'
    BY <2>1 DEF QueueInv, JobsInv, QueuesCover, Covers
  <2>5. JobsWait'
    BY <2>1, <2>3 DEF QueueInv, JobsInv, JobsWait
  <2>6. QueuedLater'
    BY <2>1, <2>3 DEF QueueInv, QueuedLater
  <2> QED BY <2>4, <2>5, <2>6 DEF QueueInv
<1>2. ASSUME NEW a \in Allocs, ExecuteCommandLists(a)  PROVE QueueInv'
  <2>1. /\ UNCHANGED <<gpuQueue, onGpu, waits, offset, todo, next>> /\ work[a] = "none" /\ mutex = "free"
        /\ \A b \in Allocs \ {a} : work'[b] = work[b]
    BY <1>0, <1>2 DEF ExecuteCommandLists, chunkVars, listVars, gpuVars, queueVars, flushVars
  <2>2. \A b \in Allocs : work[b] = "submitted" => work'[b] = "submitted"
    BY <2>1
  <2>3. /\ \A k \in DOMAIN onGpu : onGpu[k].value < next'
        /\ \A q \in Queues : \A k \in DOMAIN onGpu : Covers(q, onGpu[k].value)
    BY <1>c, <1>g, <2>1
  <2> QED BY <1>0, <2>1, <2>2, <2>3, QueuedChanges
<1>3. ASSUME NEW recorded \in BOOLEAN, FlushFails(recorded)  PROVE QueueInv'
  <2>1. /\ UNCHANGED <<gpuQueue, onGpu, waits, offset, todo, next>> /\ mutex = "submit"
        /\ work' = [a \in Allocs |-> IF a = flusher /\ work[a] = "flushes" THEN "none" ELSE work[a]]
    BY <1>3 DEF FlushFails, Resume, chunkVars, listVars, gpuVars, queueVars
  <2>2. \A b \in Allocs : work[b] = "submitted" => work'[b] = "submitted"
    BY <2>1
  <2>3. /\ \A k \in DOMAIN onGpu : onGpu[k].value < next'
        /\ \A q \in Queues : \A k \in DOMAIN onGpu : Covers(q, onGpu[k].value)
    BY <1>c, <1>g, <2>1
  <2> QED BY <1>0, <2>1, <2>2, <2>3, QueuedChanges
<1>4. ASSUME FlushEnds  PROVE QueueInv'
  <2>1. /\ UNCHANGED <<gpuQueue, onGpu, waits, offset, todo>> /\ next' = next + 1 /\ todo = {}
        /\ work' = [a \in Allocs |-> IF a = flusher /\ work[a] = "flushes" THEN "queued" ELSE work[a]]
    BY <1>4 DEF FlushEnds, Resume, chunkVars, gpuVars, queueVars
  <2>2. \A b \in Allocs : work[b] = "submitted" => work'[b] = "submitted"
    BY <2>1
  <2>3. \A k \in DOMAIN onGpu : onGpu[k].value < next'
    BY <1>0, <1>g, <2>1
  <2>4. \A q \in Queues : \A k \in DOMAIN onGpu : Covers(q, onGpu[k].value)
    BY <2>1 DEF QueueInv, QueuesCover
  <2>5. next' \in Nat /\ next' >= next
    BY <1>0, <2>1
  <2> QED BY <1>0, <2>1, <2>2, <2>3, <2>4, <2>5, QueuedChanges
<1>5. ASSUME Submit  PROVE QueueInv'
  <2> DEFINE cells == UNION {MemoryOf(t.of) : t \in {u \in Range(transfers) : u.op = "clear"}}
             new   == [value |-> next, buffer |-> buffer, ops |-> transfers, cells |-> cells]
  <2>1. /\ mutex = "submit" /\ onGpu' = Append(onGpu, new) /\ todo' = Queues
        /\ UNCHANGED <<gpuQueue, next, waits, offset, work>>
    BY <1>5 DEF Submit, listVars, queueVars, objVars, chunkVars
  <2>2. new.value = next /\ new.cells = cells
    OBVIOUS
  <2>3. ASSUME NEW b \in Allocs, work[b] = "submitted"  PROVE cells \cap MemoryOf(b) = {}
    <3> SUFFICES ASSUME NEW t \in Range(transfers), t.op = "clear"
                 PROVE  MemoryOf(t.of) \cap MemoryOf(b) = {}
      OBVIOUS
    <3>1. t.of \in Allocs /\ t = Clear(t.of)
      BY ListedTransfers DEF Range
    <3>2. Listed(t.of) /\ InList(t.of)
      BY <2>1, <3>1 DEF Listed, InList
    <3>3. pc[t.of] # "none" /\ pc[b] # "none" /\ t.of # b
      BY <2>3, <3>1, <3>2 DEF OwnerInv, Busy
    <3> QED BY <3>1, <3>3, MemoriesApart
  <2> HIDE DEF new, cells
  <2>4. /\ DOMAIN onGpu' = 1 .. Len(onGpu) + 1
        /\ \A k \in 1 .. Len(onGpu) : onGpu'[k] = onGpu[k]
        /\ onGpu'[Len(onGpu) + 1] = new
    BY <2>1, AppendElements DEF SeqInv
  <2>5. ASSUME NEW k \in DOMAIN onGpu', NEW b \in Allocs, Meets(k, b)', work[b] = "submitted"
        PROVE  k \in DOMAIN onGpu /\ Meets(k, b)
    <3>1. MemoryOf(b)' = MemoryOf(b)
      BY <2>1 DEF MemoryOf
    <3>2. onGpu'[k].cells \cap MemoryOf(b) # {}
      BY <2>5, <3>1 DEF Meets
    <3>3. k # Len(onGpu) + 1
      BY <2>2, <2>3, <2>4, <2>5, <3>2
    <3>4. k \in 1 .. Len(onGpu)
      BY <1>g, <2>4, <3>3
    <3> QED BY <1>g, <2>4, <3>2, <3>4 DEF Meets
  <2>6. JobsInv'
    BY <2>1 DEF QueueInv, JobsInv
  <2>7. JobsWait'
    <3> SUFFICES ASSUME NEW q \in Queues, NEW i \in DOMAIN gpuQueue[q], NEW k \in DOMAIN onGpu',
                        onGpu'[k].cells \cap MemoryOf(gpuQueue[q][i].of) # {}
                 PROVE  \E j \in 1 .. i : gpuQueue[q][j].wait >= onGpu'[k].value
      BY <2>1 DEF JobsWait, Meets, MemoryOf
    <3>1. PICK b \in Allocs : b = gpuQueue[q][i].of
      BY DEF QueueInv, JobsInv
    <3>2. work[b] = "submitted" /\ Meets(k, b)'
      BY <2>1, <3>1 DEF QueueInv, JobsInv, Meets, MemoryOf
    <3>3. k \in DOMAIN onGpu /\ Meets(k, b)
      BY <2>5, <3>2
    <3> QED BY <1>g, <2>4, <3>1, <3>3 DEF QueueInv, JobsWait
  <2>8. QueuedLater'
    <3> SUFFICES ASSUME NEW a \in Allocs, work[a] = "queued", NEW k \in DOMAIN onGpu', Meets(k, a)'
                 PROVE  onGpu'[k].value < next
      BY <2>1 DEF QueuedLater
    <3>1. CASE k \in 1 .. Len(onGpu)
      BY <1>g, <2>1, <2>4, <3>1
    <3>2. CASE k = Len(onGpu) + 1
      <4>1. ~InList(a)
        BY DEF OwnerInv
      <4>2. pc[a] = "live"
        BY DEF OwnerInv
      <4>3. cells \cap MemoryOf(a) = {}
        <5> SUFFICES ASSUME NEW t \in Range(transfers), t.op = "clear"
                     PROVE  MemoryOf(t.of) \cap MemoryOf(a) = {}
          BY DEF cells
        <5>1. t.of \in Allocs /\ t = Clear(t.of)
          BY ListedTransfers DEF Range
        <5>2. Listed(t.of) /\ InList(t.of)
          BY <2>1, <5>1 DEF Listed, InList
        <5>3. pc[t.of] # "none" /\ t.of # a
          BY <4>1, <5>1, <5>2 DEF OwnerInv, Busy
        <5> QED BY <4>2, <5>1, <5>3, MemoriesApart
      <4>4. onGpu'[k].cells \cap MemoryOf(a) # {}
        BY <2>1 DEF Meets, MemoryOf
      <4> QED BY <2>2, <2>4, <3>2, <4>3, <4>4
    <3> QED BY <2>4, <3>1, <3>2
  <2>9. QueuesCover'
    <3> SUFFICES ASSUME NEW q \in Queues, NEW k \in DOMAIN onGpu', onGpu'[k].value < next \/ q \notin todo'
                 PROVE  Covers(q, onGpu[k].value)'
      BY <2>1 DEF QueuesCover
    <3>1. onGpu'[k].value < next
      BY <2>1
    <3>2. k # Len(onGpu) + 1
      BY <1>0, <2>2, <2>4, <3>1
    <3>3. k \in DOMAIN onGpu /\ onGpu'[k] = onGpu[k]
      BY <1>g, <2>4, <3>2
    <3>4. Covers(q, onGpu[k].value)
      BY <1>c, <2>1, <3>3
    <3> QED BY <2>1, <3>3, <3>4 DEF Covers
  <2> QED BY <2>6, <2>7, <2>8, <2>9 DEF QueueInv
<1>6. ASSUME NEW q \in Queues, AddWait(q)  PROVE QueueInv'
  <2>1. /\ UNCHANGED <<gpuQueue, next, onGpu, offset, work>>
        /\ waits' = [waits EXCEPT ![q] = next] /\ todo' = todo \ {q}
    BY <1>6 DEF AddWait, listVars, gpuVars, objVars, chunkVars
  <2>2. \A k, a : Meets(k, a)' <=> Meets(k, a)
    BY <2>1 DEF Meets, MemoryOf
  <2>3. JobsInv' /\ JobsWait' /\ QueuedLater'
    BY <2>1, <2>2 DEF QueueInv, JobsInv, JobsWait, QueuedLater
  <2>4. QueuesCover'
    <3> SUFFICES ASSUME NEW p \in Queues, NEW k \in DOMAIN onGpu,
                        onGpu[k].value < next \/ p \notin todo'
                 PROVE  Covers(p, onGpu[k].value)'
      BY <2>1 DEF QueuesCover
    <3>1. CASE p = q
      <4>1. waits'[p] = next /\ onGpu[k].value <= next
        BY <1>0, <1>g, <2>1, <3>1
      <4> QED BY <1>0, <1>g, <2>1, <4>1 DEF Covers
    <3>2. CASE p # q
      <4>1. Covers(p, onGpu[k].value)
        BY <2>1, <3>2 DEF QueueInv, QueuesCover
      <4>2. waits'[p] = waits[p] /\ gpuQueue' = gpuQueue /\ onGpu' = onGpu
        BY <1>0, <2>1, <3>2
      <4> QED BY <4>1, <4>2 DEF Covers
    <3> QED BY <3>1, <3>2
  <2> QED BY <2>3, <2>4 DEF QueueInv
<1>7. ASSUME NEW a \in Allocs, NEW q \in Queues, SubmitWork(a, q)  PROVE QueueInv'
  <2> DEFINE job == [of |-> a, wait |-> waits[q]]
             g   == gpuQueue[q]
             n   == Len(g)
  <2>1. /\ UNCHANGED <<next, onGpu, offset, todo>> /\ work[a] = "queued"
        /\ work' = [work EXCEPT ![a] = "submitted"]
        /\ gpuQueue' = [gpuQueue EXCEPT ![q] = Append(g, job)]
        /\ waits' = [waits EXCEPT ![q] = 0]
    BY <1>7 DEF SubmitWork, listVars, gpuVars, flushVars, chunkVars
  <2>2. /\ DOMAIN g = 1 .. n /\ n \in Nat /\ DOMAIN gpuQueue'[q] = 1 .. (n + 1)
        /\ \A i \in 1 .. n : gpuQueue'[q][i] = g[i]
        /\ gpuQueue'[q][n + 1] = job
    BY <1>0, <2>1, AppendElements
  <2>3. \A p \in Queues : p # q => gpuQueue'[p] = gpuQueue[p] /\ waits'[p] = waits[p]
    BY <1>0, <2>1
  <2>4. job.of = a /\ job.wait = waits[q] /\ waits[q] \in 0 .. next
    BY <1>0
  <2>5. \A p \in Queues : \A i \in DOMAIN gpuQueue[p] : gpuQueue[p][i].of # a
    BY <2>1 DEF QueueInv, JobsInv
  <2>6. \A k, b : Meets(k, b)' <=> Meets(k, b)
    BY <2>1 DEF Meets, MemoryOf
  <2>7. g = gpuQueue[q]
    OBVIOUS
  <2> HIDE DEF job, g, n
  \* A job of the new queues is a former one or the new one.
  <2>8. ASSUME NEW p \in Queues, NEW i \in DOMAIN gpuQueue'[p]
        PROVE  \/ i \in DOMAIN gpuQueue[p] /\ gpuQueue'[p][i] = gpuQueue[p][i]
               \/ p = q /\ i = n + 1 /\ gpuQueue'[p][i] = job
    BY <2>2, <2>3, <2>7
  <2>9. JobsInv'
    <3> SUFFICES ASSUME NEW p \in Queues, NEW i \in DOMAIN gpuQueue'[p]
                 PROVE  /\ gpuQueue'[p][i].of \in Allocs /\ gpuQueue'[p][i].wait \in 0 .. next
                        /\ work'[gpuQueue'[p][i].of] = "submitted"
                        /\ \A r \in Queues : \A j \in DOMAIN gpuQueue'[r] :
                             gpuQueue'[r][j].of = gpuQueue'[p][i].of => r = p /\ j = i
      BY <2>1 DEF JobsInv
    <3>1. /\ gpuQueue'[p][i].of \in Allocs /\ gpuQueue'[p][i].wait \in 0 .. next
          /\ work'[gpuQueue'[p][i].of] = "submitted"
      <4>1. CASE i \in DOMAIN gpuQueue[p] /\ gpuQueue'[p][i] = gpuQueue[p][i]
        BY <1>0, <2>1, <4>1 DEF QueueInv, JobsInv
      <4>2. CASE gpuQueue'[p][i] = job
        BY <1>0, <2>1, <2>4, <4>2
      <4> QED BY <2>8, <4>1, <4>2
    <3>2. ASSUME NEW r \in Queues, NEW j \in DOMAIN gpuQueue'[r], gpuQueue'[r][j].of = gpuQueue'[p][i].of
          PROVE  r = p /\ j = i
      <4>1. CASE /\ i \in DOMAIN gpuQueue[p] /\ gpuQueue'[p][i] = gpuQueue[p][i]
                 /\ j \in DOMAIN gpuQueue[r] /\ gpuQueue'[r][j] = gpuQueue[r][j]
        BY <3>2, <4>1 DEF QueueInv, JobsInv
      <4> QED BY <2>4, <2>5, <2>8, <3>2, <4>1
    <3> QED BY <3>1, <3>2
  <2>10. JobsWait'
    <3> SUFFICES ASSUME NEW p \in Queues, NEW i \in DOMAIN gpuQueue'[p], NEW k \in DOMAIN onGpu,
                        Meets(k, gpuQueue'[p][i].of)
                 PROVE  \E j \in 1 .. i : gpuQueue'[p][j].wait >= onGpu[k].value
      BY <2>1, <2>6 DEF JobsWait, Meets, MemoryOf
    <3>1. CASE i \in DOMAIN gpuQueue[p] /\ gpuQueue'[p][i] = gpuQueue[p][i]
      <4>1. PICK j \in 1 .. i : gpuQueue[p][j].wait >= onGpu[k].value
        BY <3>1 DEF QueueInv, JobsWait
      <4>2. gpuQueue'[p][j] = gpuQueue[p][j]
        <5>1. CASE p = q
          BY <2>2, <2>7, <3>1, <4>1, <5>1
        <5>2. CASE p # q
          BY <2>3, <5>2
        <5> QED BY <5>1, <5>2
      <4> QED BY <4>1, <4>2
    <3>2. CASE p = q /\ i = n + 1 /\ gpuQueue'[p][i] = job
      <4>1. onGpu[k].value < next
        BY <2>1, <2>4, <3>2 DEF QueueInv, QueuedLater
      <4>2. Covers(q, onGpu[k].value)
        BY <4>1 DEF QueueInv, QueuesCover
      <4>3. CASE waits[q] >= onGpu[k].value
        BY <2>2, <2>4, <3>2, <4>3
      <4>4. CASE \E j \in DOMAIN g : g[j].wait >= onGpu[k].value
        <5>1. PICK j \in DOMAIN g : g[j].wait >= onGpu[k].value
          BY <4>4
        <5> QED BY <2>2, <3>2, <5>1
      <4> QED BY <2>7, <4>2, <4>3, <4>4 DEF Covers
    <3> QED BY <2>8, <3>1, <3>2
  <2>11. QueuedLater'
    BY <1>0, <2>1, <2>6 DEF QueueInv, QueuedLater
  <2>12. QueuesCover'
    <3> SUFFICES ASSUME NEW p \in Queues, NEW k \in DOMAIN onGpu, onGpu[k].value < next \/ p \notin todo
                 PROVE  Covers(p, onGpu[k].value)'
      BY <2>1 DEF QueuesCover
    <3>1. Covers(p, onGpu[k].value)
      BY DEF QueueInv, QueuesCover
    <3>2. CASE p # q
      BY <2>1, <2>3, <3>1, <3>2 DEF Covers
    <3>3. CASE p = q
      <4>1. \/ waits[q] >= onGpu[k].value
            \/ \E j \in DOMAIN g : g[j].wait >= onGpu[k].value
        BY <2>7, <3>1, <3>3 DEF Covers
      <4>2. \E j \in DOMAIN gpuQueue'[q] : gpuQueue'[q][j].wait >= onGpu[k].value
        <5>1. CASE waits[q] >= onGpu[k].value
          <6>1. n + 1 \in DOMAIN gpuQueue'[q] /\ gpuQueue'[q][n + 1].wait >= onGpu[k].value
            BY <2>2, <2>4, <5>1
          <6> QED BY <6>1
        <5>2. CASE \E j \in DOMAIN g : g[j].wait >= onGpu[k].value
          <6>1. PICK j \in DOMAIN g : g[j].wait >= onGpu[k].value
            BY <5>2
          <6>2. j \in DOMAIN gpuQueue'[q] /\ gpuQueue'[q][j] = g[j]
            BY <2>2, <6>1
          <6> QED BY <6>1, <6>2
        <5> QED BY <4>1, <5>1, <5>2
      <4> QED BY <2>1, <3>3, <4>2 DEF Covers
    <3> QED BY <3>2, <3>3
  <2> QED BY <2>9, <2>10, <2>11, <2>12 DEF QueueInv
<1>8. ASSUME GpuTransfers  PROVE QueueInv'
  <2>1. onGpu # <<>> /\ onGpu' = Tail(onGpu) /\ UNCHANGED <<gpuQueue, next, waits, offset, work, todo>>
    BY <1>8 DEF GpuTransfers, listVars, queueVars, chunkVars, flushVars
  <2>2. /\ DOMAIN onGpu' = 1 .. Len(onGpu) - 1
        /\ \A i \in 1 .. Len(onGpu) - 1 : onGpu'[i] = onGpu[i + 1]
    BY <2>1, TailElements DEF SeqInv
  <2>3. ASSUME NEW k \in DOMAIN onGpu'
        PROVE  k + 1 \in DOMAIN onGpu /\ onGpu'[k] = onGpu[k + 1] /\ \A a : Meets(k, a)' => Meets(k + 1, a)
    <3>1. k \in 1 .. Len(onGpu) - 1
      BY <2>2
    <3>2. k + 1 \in DOMAIN onGpu /\ onGpu'[k] = onGpu[k + 1]
      BY <1>g, <2>2, <3>1
    <3> QED BY <2>1, <3>2 DEF Meets, MemoryOf
  <2>4. JobsInv'
    BY <2>1 DEF QueueInv, JobsInv
  <2>5. JobsWait'
    <3> SUFFICES ASSUME NEW q \in Queues, NEW i \in DOMAIN gpuQueue[q], NEW k \in DOMAIN onGpu',
                        onGpu'[k].cells \cap MemoryOf(gpuQueue[q][i].of) # {}
                 PROVE  \E j \in 1 .. i : gpuQueue[q][j].wait >= onGpu'[k].value
      BY <2>1 DEF JobsWait, Meets, MemoryOf
    <3>1. Meets(k + 1, gpuQueue[q][i].of)
      BY <2>3 DEF Meets
    <3> QED BY <2>3, <3>1 DEF QueueInv, JobsWait
  <2>6. QueuedLater'
    <3> SUFFICES ASSUME NEW a \in Allocs, work[a] = "queued", NEW k \in DOMAIN onGpu', Meets(k, a)'
                 PROVE  onGpu'[k].value < next
      BY <2>1 DEF QueuedLater
    <3> QED BY <2>3 DEF QueueInv, QueuedLater
  <2>7. QueuesCover'
    <3> SUFFICES ASSUME NEW q \in Queues, NEW k \in DOMAIN onGpu', onGpu'[k].value < next \/ q \notin todo
                 PROVE  Covers(q, onGpu[k].value)'
      BY <2>1 DEF QueuesCover
    <3>1. Covers(q, onGpu[k + 1].value)
      BY <2>3 DEF QueueInv, QueuesCover
    <3> QED BY <2>1, <2>3, <3>1 DEF Covers
  <2> QED BY <2>4, <2>5, <2>6, <2>7 DEF QueueInv
<1>9. ASSUME NEW q \in Queues, GpuWork(q)  PROVE QueueInv'
  <2> DEFINE g == gpuQueue[q]
             n == Len(g)
             a == Head(g).of
  <2>1. /\ g # <<>> /\ sem >= Head(g).wait /\ UNCHANGED <<next, onGpu, waits, offset, todo>>
        /\ gpuQueue' = [gpuQueue EXCEPT ![q] = Tail(g)]
        /\ work' = [work EXCEPT ![a] = "none"]
    BY <1>9 DEF GpuWork, listVars, gpuVars, chunkVars, flushVars
  <2>2. /\ DOMAIN g = 1 .. n /\ n \in Nat \ {0} /\ DOMAIN gpuQueue'[q] = 1 .. (n - 1) /\ Head(g) = g[1]
        /\ \A i \in 1 .. (n - 1) : gpuQueue'[q][i] = g[i + 1]
    BY <1>0, <2>1, TailElements
  <2>3. \A p \in Queues : p # q => gpuQueue'[p] = gpuQueue[p]
    BY <1>0, <2>1
  <2>4. \A k, b : Meets(k, b)' <=> Meets(k, b)
    BY <2>1 DEF Meets, MemoryOf
  <2>5. g = gpuQueue[q] /\ a = g[1].of
    BY <2>2
  <2> HIDE DEF g, n, a
  <2>6. /\ 1 \in DOMAIN g /\ a \in Allocs /\ work[a] = "submitted" /\ g[1].wait \in 0 .. next
        /\ \A k \in DOMAIN onGpu : g[1].wait < onGpu[k].value
    <3>1. 1 \in DOMAIN g
      BY <2>2
    <3>2. a \in Allocs /\ work[a] = "submitted" /\ g[1].wait \in 0 .. next
      BY <2>5, <3>1 DEF QueueInv, JobsInv
    <3> QED BY <1>0, <1>g, <2>1, <2>2, <3>1, <3>2
  \* Every job that is left was there, one place further back if it is of this queue.
  <2> DEFINE Was(p, i) == IF p = q THEN i + 1 ELSE i
  <2>7. ASSUME NEW p \in Queues, NEW i \in DOMAIN gpuQueue'[p]
        PROVE  /\ Was(p, i) \in DOMAIN gpuQueue[p] /\ gpuQueue'[p][i] = gpuQueue[p][Was(p, i)]
               /\ gpuQueue'[p][i].of # a
    <3>1. CASE p = q
      <4>1. i + 1 \in 1 .. n /\ i + 1 # 1 /\ gpuQueue'[p][i] = g[i + 1]
        BY <2>2, <3>1
      <4>2. g[i + 1].of # g[1].of
        BY <2>2, <2>5, <2>6, <4>1 DEF QueueInv, JobsInv
      <4> QED BY <2>2, <2>5, <3>1, <4>1, <4>2
    <3>2. CASE p # q
      <4>1. i \in DOMAIN gpuQueue[p] /\ gpuQueue'[p][i] = gpuQueue[p][i]
        BY <2>3, <3>2
      <4>2. gpuQueue[p][i].of # g[1].of
        BY <2>5, <2>6, <3>2, <4>1 DEF QueueInv, JobsInv
      <4> QED BY <2>5, <3>2, <4>1, <4>2
    <3> QED BY <3>1, <3>2
  <2>8. JobsInv'
    <3> SUFFICES ASSUME NEW p \in Queues, NEW i \in DOMAIN gpuQueue'[p]
                 PROVE  /\ gpuQueue'[p][i].of \in Allocs /\ gpuQueue'[p][i].wait \in 0 .. next
                        /\ work'[gpuQueue'[p][i].of] = "submitted"
                        /\ \A r \in Queues : \A j \in DOMAIN gpuQueue'[r] :
                             gpuQueue'[r][j].of = gpuQueue'[p][i].of => r = p /\ j = i
      BY <2>1 DEF JobsInv
    <3>1. /\ gpuQueue'[p][i].of \in Allocs /\ gpuQueue'[p][i].wait \in 0 .. next
          /\ work'[gpuQueue'[p][i].of] = "submitted"
      BY <1>0, <2>1, <2>6, <2>7 DEF QueueInv, JobsInv
    <3>2. ASSUME NEW r \in Queues, NEW j \in DOMAIN gpuQueue'[r], gpuQueue'[r][j].of = gpuQueue'[p][i].of
          PROVE  r = p /\ j = i
      <4>1. r = p /\ Was(r, j) = Was(p, i)
        <5>1. /\ Was(p, i) \in DOMAIN gpuQueue[p] /\ Was(r, j) \in DOMAIN gpuQueue[r]
              /\ gpuQueue[r][Was(r, j)].of = gpuQueue[p][Was(p, i)].of
          BY <2>7, <3>2
        <5> HIDE DEF Was
        <5> QED BY <5>1 DEF QueueInv, JobsInv
      <4>2. p = q => i \in Int /\ j \in Int
        BY <2>2, <4>1
      <4> QED BY <4>1, <4>2
    <3> QED BY <3>1, <3>2
  <2>9. JobsWait'
    <3> SUFFICES ASSUME NEW p \in Queues, NEW i \in DOMAIN gpuQueue'[p], NEW k \in DOMAIN onGpu,
                        Meets(k, gpuQueue'[p][i].of)
                 PROVE  \E j \in 1 .. i : gpuQueue'[p][j].wait >= onGpu[k].value
      BY <2>1, <2>4 DEF JobsWait, Meets, MemoryOf
    <3>1. PICK j \in 1 .. Was(p, i) : gpuQueue[p][j].wait >= onGpu[k].value
      <4> HIDE DEF Was
      <4>1. Was(p, i) \in DOMAIN gpuQueue[p] /\ Meets(k, gpuQueue[p][Was(p, i)].of)
        BY <2>7
      <4> QED BY <4>1 DEF QueueInv, JobsWait
    <3>2. CASE p = q
      <4>1. g[1].wait < onGpu[k].value /\ i \in 1 .. (n - 1) /\ onGpu[k].value \in Nat /\ g[1].wait \in Nat
        BY <1>g, <2>2, <2>6, <3>2
      <4>2. j # 1
        BY <2>5, <3>1, <3>2, <4>1
      <4>3. j - 1 \in 1 .. i /\ j - 1 \in 1 .. (n - 1)
        BY <2>2, <3>1, <3>2, <4>1, <4>2
      <4>4. gpuQueue'[q][j - 1] = g[j]
        BY <2>2, <4>3
      <4> QED BY <2>5, <3>1, <3>2, <4>3, <4>4
    <3>3. CASE p # q
      BY <2>3, <3>1, <3>3
    <3> QED BY <3>2, <3>3
  <2>10. QueuedLater'
    BY <1>0, <2>1, <2>4 DEF QueueInv, QueuedLater
  <2>11. QueuesCover'
    <3> SUFFICES ASSUME NEW p \in Queues, NEW k \in DOMAIN onGpu, onGpu[k].value < next \/ p \notin todo
                 PROVE  Covers(p, onGpu[k].value)'
      BY <2>1 DEF QueuesCover
    <3>1. Covers(p, onGpu[k].value)
      BY DEF QueueInv, QueuesCover
    <3>2. CASE p # q
      BY <2>1, <2>3, <3>1, <3>2 DEF Covers
    <3>3. CASE p = q
      <4>1. CASE waits[q] >= onGpu[k].value
        BY <2>1, <3>3, <4>1 DEF Covers
      <4>2. CASE \E j \in DOMAIN g : g[j].wait >= onGpu[k].value
        <5>1. PICK j \in DOMAIN g : g[j].wait >= onGpu[k].value
          BY <4>2
        <5>2. onGpu[k].value \in Nat /\ g[1].wait \in Nat /\ g[1].wait < onGpu[k].value
          BY <1>g, <2>6
        <5>3. j - 1 \in 1 .. (n - 1)
          BY <2>2, <5>1, <5>2
        <5>4. gpuQueue'[q][j - 1] = g[j]
          BY <2>2, <5>3
        <5>5. j - 1 \in DOMAIN gpuQueue'[q] /\ gpuQueue'[q][j - 1].wait >= onGpu[k].value
          BY <2>2, <5>1, <5>3, <5>4
        <5> QED BY <2>1, <3>3, <5>5 DEF Covers
      <4> QED BY <2>5, <3>1, <3>3, <4>1, <4>2 DEF Covers
    <3> QED BY <3>2, <3>3
  <2> QED BY <2>8, <2>9, <2>10, <2>11 DEF QueueInv
<1> DEFINE Same == UNCHANGED <<gpuQueue, next, onGpu, waits, offset, work, todo>>
<1>10. Same => QueueInv'
  BY GpuFrameQueues
<1> USE DEF objVars, chunkVars, flushVars, listVars, gpuVars, queueVars
<1>11. ASSUME NEW a \in Allocs, FillAllocation(a) \/ FreeMemory(a) \/ \E z \in Kinds : Allocate(a, z)  PROVE Same
  BY <1>11 DEF FillAllocation, Execute, FreeMemory, Allocate
<1>12. ASSUME NEW r \in Textures, WriteSubresource(r) \/ ReleaseTexture(r)  PROVE Same
  BY <1>12 DEF WriteSubresource, Execute, ReleaseTexture
<1>13. ASSUME Track  PROVE Same
  BY <1>13 DEF Track, TakeBatch, ReleaseTracked
<1>14. ASSUME NEW o \in Objects, Free(o)  PROVE Same
  BY <1>14 DEF Free, CheckDone, TakeFromList, NotInList, Waited, ReturnRange, ReturnMemory
<1>15. ASSUME UNCHANGED vars  PROVE Same
  BY <1>15 DEF vars
<1> HIDE DEF Same
<1>16. CASE \E a \in Allocs : \/ \E z \in Kinds : Suballocate(a, z) \/ Allocate(a, z)
                              \/ FillAllocation(a) \/ ExecuteCommandLists(a) \/ FreeMemory(a)
                              \/ \E q \in Queues : SubmitWork(a, q)
  BY <1>1, <1>2, <1>7, <1>10, <1>11, <1>16
<1>17. CASE Gpu \/ Flush \/ Track
  BY <1>3, <1>4, <1>5, <1>6, <1>8, <1>9, <1>10, <1>13, <1>17 DEF Gpu, Flush
<1> QED BY <1>10, <1>12, <1>14, <1>15, <1>16, <1>17 DEF Next

-----------------------------------------------------------------------------
(* What is in memory.                                                      *)

\* The memory stays as it is, and whoever comes to use it had listed it.
ContentFrame ==
  /\ UNCHANGED <<content, onGpu, zeroed, offset>>
  /\ \A a \in Allocs :
       /\ pc'[a] = "taken" \/ Listed(a)' => pc[a] = "taken" \/ Listed(a)
       /\ pc'[a] \in {"flushes", "live"} /\ ~Listed(a)' => pc[a] \in {"flushes", "live"} /\ ~Listed(a)

\* What FillAllocation lists is fresh.
ContentFilled(a) ==
  /\ UNCHANGED <<content, onGpu, zeroed, offset>>
  /\ pc[a] = "taken" /\ Listed(a)'
  /\ \A b \in Allocs \ {a} : pc'[b] = pc[b] /\ (Listed(b)' <=> Listed(b))

LEMMA ContentFrames ==
  ASSUME SeqInv, ListInv,
         \/ \E a \in Allocs : \/ ExecuteCommandLists(a) \/ FreeMemory(a)
                              \/ \E q \in Queues : SubmitWork(a, q)
         \/ \E r \in Textures : WriteSubresource(r) \/ ReleaseTexture(r)
         \/ (\E q \in Queues : AddWait(q)) \/ FlushEnds \/ Track
         \/ \E recorded \in BOOLEAN : FlushFails(recorded)
         \/ \E o \in Objects : Free(o)
         \/ UNCHANGED vars
  PROVE  ContentFrame
<1> USE ObjectNames
<1>0. /\ pc \in [Objects -> {"none", "taken", "flushes", "live", "check", "search", "blocked", "returns"}]
      /\ \A o : Listed(o) <=> mutex # "waits" /\ InList(o)
      /\ \A o : Listed(o)' <=> mutex' # "waits" /\ InList(o)'
  BY DEF SeqInv, TypeOK, Listed, InList
<1>1. \A x : Clear(x).of = x /\ \A r : Write(r) # Clear(x)
  <2>1. \A x : Clear(x).op = "clear" /\ Clear(x).of = x /\ Write(x).op = "write"
    BY DEF Clear, Write
  <2> QED BY <2>1
<1> DEFINE Data == UNCHANGED <<content, onGpu, zeroed, offset>>
           Same == /\ Range(transfers') = Range(transfers)
                   /\ (mutex' = "waits" <=> mutex = "waits")
<1>2. ASSUME Same  PROVE \A o : Listed(o)' <=> Listed(o)
  BY <1>2 DEF Listed, Clear
<1> USE DEF chunkVars, flushVars, listVars, gpuVars, queueVars, objVars
<1>3. ASSUME NEW a \in Allocs,
             ExecuteCommandLists(a) \/ \E q \in Queues : SubmitWork(a, q)
      PROVE  ContentFrame
  <2>1. Data /\ Same /\ pc' = pc
    BY <1>3 DEF ExecuteCommandLists, SubmitWork
  <2> QED BY <1>2, <2>1 DEF ContentFrame
<1>4. ASSUME NEW a \in Allocs, FreeMemory(a)  PROVE ContentFrame
  <2>1. Data /\ Same /\ pc' = [pc EXCEPT ![a] = IF clear[a] = 0 THEN "returns" ELSE "check"]
    BY <1>4 DEF FreeMemory, At
  <2> QED BY <1>0, <1>2, <2>1 DEF ContentFrame
<1>5. ASSUME NEW r \in Textures, WriteSubresource(r)  PROVE ContentFrame
  <2>1. /\ Data /\ pc' = pc /\ mutex = "free" /\ mutex' # "waits"
        /\ Range(transfers') = Range(transfers) \cup {Write(r)}
    BY <1>5, RangeOfAppend DEF WriteSubresource, Execute, SeqInv
  <2>2. \A o : Listed(o)' <=> Listed(o)
    BY <1>1, <2>1 DEF Listed, Clear
  <2> QED BY <2>1, <2>2 DEF ContentFrame
<1>6. ASSUME (\E r \in Textures : ReleaseTexture(r)) \/ (\E q \in Queues : AddWait(q)) \/ Track \/ UNCHANGED vars
      PROVE  ContentFrame
  <2>1. Data /\ Same /\ pc' = pc
    BY <1>6 DEF ReleaseTexture, AddWait, Track, TakeBatch, ReleaseTracked, vars
  <2> QED BY <1>2, <2>1 DEF ContentFrame
<1>7. ASSUME NEW recorded \in BOOLEAN, FlushFails(recorded)  PROVE ContentFrame
  <2>1. /\ Data /\ Same
        /\ pc' = [o \in Objects |-> IF o = flusher /\ pc[o] = "flushes" THEN "live" ELSE pc[o]]
    BY <1>7 DEF FlushFails, Resume
  <2> QED BY <1>0, <1>2, <2>1 DEF ContentFrame
<1>8. ASSUME FlushEnds  PROVE ContentFrame
  <2>1. /\ Data /\ mutex = "waits" /\ transfers' = <<>>
        /\ pc' = [o \in Objects |-> IF o = flusher /\ pc[o] = "flushes" THEN "live" ELSE pc[o]]
    BY <1>8 DEF FlushEnds, Resume
  <2>2. \A o : ~Listed(o)' /\ ~Listed(o)
    BY <2>1 DEF Listed, Range
  <2> QED BY <1>0, <2>1, <2>2 DEF ContentFrame
<1>9. ASSUME NEW o \in Objects, Free(o)  PROVE ContentFrame
  <2>1. CASE TakeFromList(o)
    <3>1. /\ Data /\ pc' = [pc EXCEPT ![o] = "returns"] /\ mutex = "free" /\ mutex' = "free"
          /\ Range(transfers') = Range(transfers) \ {Clear(o)}
      BY <2>1, TakenFromList DEF TakeFromList, At
    <3>2. \A p : Listed(p)' <=> Listed(p) /\ p # o
      BY <1>1, <3>1 DEF Listed, Clear
    <3> QED BY <1>0, <3>1, <3>2 DEF ContentFrame
  <2>2. CASE CheckDone(o) \/ NotInList(o) \/ Waited(o) \/ ReturnMemory(o)
    <3>1. /\ Data /\ Same /\ \A p \in Objects \ {o} : pc'[p] = pc[p]
          /\ pc'[o] \in {"none", "search", "blocked", "returns"}
      BY <1>0, <2>2 DEF CheckDone, NotInList, Waited, ReturnMemory, At
    <3> QED BY <1>2, <3>1 DEF ContentFrame
  <2>3. CASE ReturnRange(o)
    <3>1. /\ Data /\ Same /\ o \in Allocs /\ \A a \in Allocs \ {o} : pc'[a] = pc[a]
          /\ pc'[o] = "none"
      BY <1>0, <2>3 DEF ReturnRange
    <3> QED BY <1>2, <3>1 DEF ContentFrame
  <2> QED BY <1>9, <2>1, <2>2, <2>3 DEF Free
<1>10. CASE \E a \in Allocs : \/ ExecuteCommandLists(a) \/ FreeMemory(a)
                              \/ \E q \in Queues : SubmitWork(a, q)
  BY <1>3, <1>4, <1>10
<1> QED BY <1>5, <1>6, <1>7, <1>8, <1>9, <1>10

LEMMA ContentKept ==
  ASSUME ContentInv, ContentFrame
  PROVE  ContentInv'
<1>1. \A set : Fresh(set)' <=> Fresh(set)
  BY DEF ContentFrame, Fresh
<1>2. \A a : MemoryOf(a)' = MemoryOf(a)
  BY DEF ContentFrame, MemoryOf
<1>3. NothingIsSpoilt'
  BY DEF ContentInv, ContentFrame, NothingIsSpoilt
<1>4. FreshBefore'
  BY <1>1, <1>2 DEF ContentInv, ContentFrame, FreshBefore, Fresh
<1>5. ClearedFirst'
  BY <1>2 DEF ContentInv, ContentFrame, ClearedFirst
<1>6. CellsFresh'
  BY <1>1 DEF ContentInv, ContentFrame, CellsFresh, Fresh
<1> QED BY <1>3, <1>4, <1>5, <1>6 DEF ContentInv

\* New memory is not in use.
LEMMA NewMemory ==
  ASSUME SeqInv, OwnerInv, RangeInv, RangeInv', ContentInv, NEW a \in Allocs, NEW z \in Kinds,
         Suballocate(a, z) \/ Allocate(a, z)
  PROVE  ContentInv'
<1> USE ObjectNames
<1>0. /\ pc \in [Objects -> {"none", "taken", "flushes", "live", "check", "search", "blocked", "returns"}]
      /\ zeroed \in [Allocs -> BOOLEAN] /\ offset \in [Subs -> 0 .. ChunkSize - 1]
      /\ content \in [Memories -> {"old", "zero", "data", "spoilt"}] /\ z \in BOOLEAN
  BY KindsAssumption DEF SeqInv, TypeOK
\* The memory that a gets.
<1> DEFINE new == IF a \in Subs THEN Cells(offset'[a], SizeOf[a]) ELSE {a}
<1>1. /\ pc[a] = "none" /\ pc'[a] = (IF z THEN "taken" ELSE "live") /\ zeroed'[a] = z
      /\ \A b \in Allocs \ {a} : /\ pc'[b] = pc[b] /\ zeroed'[b] = zeroed[b]
                                 /\ b \in Subs => offset'[b] = offset[b]
      /\ UNCHANGED <<transfers, mutex, onGpu>>
      /\ content' = [m \in Memories |-> IF m \in new THEN "old" ELSE content[m]]
  <2>1. CASE Suballocate(a, z)
    BY <1>0, <2>1 DEF Suballocate, flushVars, listVars, gpuVars
  <2>2. CASE Allocate(a, z)
    <3>1. a \in Dedicated /\ a \notin Subs /\ a \in Memories
      BY <2>2 DEF Allocate, Memories
    <3> QED BY <1>0, <2>2, <3>1 DEF Allocate, At, chunkVars, flushVars, listVars, gpuVars
  <2> QED BY <2>1, <2>2
<1>2. \A o : Listed(o)' <=> Listed(o)
  BY <1>1 DEF Listed, Clear
<1>3. MemoryOf(a)' = new
  BY DEF MemoryOf
<1>4. ASSUME NEW b \in Allocs \ {a}  PROVE MemoryOf(b)' = MemoryOf(b)
  BY <1>1, <1>4 DEF MemoryOf
<1>5. ASSUME NEW b \in Allocs \ {a}, pc[b] # "none"
      PROVE  new \cap MemoryOf(b) = {} /\ MemoryOf(b) \subseteq Memories
  <2>1. MemoryOf(b) \subseteq Memories
    BY <1>5, MemoryExists
  <2>2. CASE b \in Subs /\ a \in Subs
    <3>1. /\ offset'[a] \in Nat /\ SizeOf[a] \in Nat \ {0} /\ offset'[b] \in Nat /\ SizeOf[b] \in Nat \ {0}
          /\ Apart(offset'[a], SizeOf[a], offset'[b], SizeOf[b])
      BY <1>1, <1>5, <2>2, SizesAssumption DEF RangeInv
    <3>2. MemoryOf(b) = Cells(offset'[b], SizeOf[b])
      BY <1>1, <1>5, <2>2 DEF MemoryOf
    <3>3. Cells(offset'[a], SizeOf[a]) \cap Cells(offset'[b], SizeOf[b]) = {}
      BY ONLY <3>1 DEF Apart, Cells
    <3> QED BY <2>1, <2>2, <3>2, <3>3
  <2>3. CASE b \notin Subs /\ a \in Subs
    <3>1. offset'[a] \in Nat /\ SizeOf[a] \in Nat \ {0} /\ offset'[a] + SizeOf[a] <= ChunkSize /\ ChunkSize \in Nat
      BY <1>1, <2>3, SizesAssumption DEF RangeInv
    <3>2. new \subseteq 0 .. ChunkSize - 1
      BY <2>3, <3>1 DEF Cells
    <3>3. MemoryOf(b) = {b} /\ b \notin 0 .. ChunkSize - 1
      BY <1>5, <2>3, NamesAssumption DEF MemoryOf
    <3> QED BY <2>1, <3>2, <3>3
  <2>4. CASE b \in Subs /\ a \notin Subs
    <3>1. offset[b] \in Nat /\ SizeOf[b] \in Nat \ {0} /\ offset[b] + SizeOf[b] <= ChunkSize /\ ChunkSize \in Nat
      BY <1>5, <2>4, SizesAssumption DEF RangeInv
    <3>2. MemoryOf(b) \subseteq 0 .. ChunkSize - 1
      BY <2>4, <3>1 DEF MemoryOf, Cells
    <3>3. new = {a} /\ a \notin 0 .. ChunkSize - 1
      BY <2>4, NamesAssumption
    <3> QED BY <2>1, <3>2, <3>3
  <2>5. CASE b \notin Subs /\ a \notin Subs
    BY <1>5, <2>1, <2>5 DEF MemoryOf
  <2> QED BY <2>2, <2>3, <2>4, <2>5
<1> HIDE DEF new
<1>6. \A set : set \subseteq Memories /\ Fresh(set) => Fresh(set)'
  BY <1>1 DEF Fresh
<1>7. NothingIsSpoilt'
  BY <1>1 DEF ContentInv, NothingIsSpoilt
<1>8. FreshBefore'
  <2> SUFFICES ASSUME NEW b \in Allocs, pc'[b] = "taken" \/ Listed(b)'
               PROVE  Fresh(MemoryOf(b))'
    BY DEF FreshBefore, Listed, Fresh
  <2>1. CASE b = a
    <3>1. \A m \in new : m \in Memories => content'[m] = "old"
      BY <1>1
    <3>2. new \subseteq Memories
      <4>1. CASE a \in Subs
        <5>1. offset'[a] \in Nat /\ SizeOf[a] \in Nat \ {0} /\ offset'[a] + SizeOf[a] <= ChunkSize /\ ChunkSize \in Nat
          BY <1>1, <4>1, SizesAssumption DEF RangeInv
        <5> QED BY <4>1, <5>1 DEF new, Cells, Memories
      <4>2. CASE a \notin Subs
        BY <4>2 DEF new, Memories
      <4> QED BY <4>1, <4>2
    <3> QED BY <1>3, <2>1, <3>1, <3>2 DEF Fresh
  <2>2. CASE b # a
    <3>1. pc[b] # "none" /\ (pc[b] = "taken" \/ Listed(b))
      BY <1>1, <1>2, <2>2 DEF OwnerInv, Busy
    <3>2. Fresh(MemoryOf(b)) /\ MemoryOf(b) \subseteq Memories /\ MemoryOf(b)' = MemoryOf(b)
      BY <1>4, <1>5, <2>2, <3>1 DEF ContentInv, FreshBefore
    <3>3. \A m \in MemoryOf(b) : content'[m] \in {"old", "zero"}
      BY <1>1, <3>2 DEF Fresh
    <3> QED BY <3>2, <3>3 DEF Fresh
  <2> QED BY <2>1, <2>2
<1>9. ClearedFirst'
  <2> SUFFICES ASSUME NEW b \in Allocs, zeroed'[b], pc'[b] \in {"flushes", "live"}, ~Listed(b)'
               PROVE  \/ \E i \in DOMAIN onGpu' : MemoryOf(b)' \subseteq onGpu'[i].cells
                      \/ \A m \in MemoryOf(b)' : content'[m] # "old"
    BY DEF ClearedFirst
  <2>1. b # a
    BY <1>0, <1>1
  <2>2. /\ \/ \E i \in DOMAIN onGpu : MemoryOf(b) \subseteq onGpu[i].cells
           \/ \A m \in MemoryOf(b) : content[m] # "old"
        /\ pc[b] # "none"
    BY <1>1, <1>2, <2>1 DEF ContentInv, ClearedFirst
  <2>3. MemoryOf(b)' = MemoryOf(b) /\ new \cap MemoryOf(b) = {} /\ MemoryOf(b) \subseteq Memories
    BY <1>4, <1>5, <2>1, <2>2
  <2> QED BY <1>1, <2>2, <2>3
<1>10. CellsFresh'
  <2> SUFFICES ASSUME NEW i \in DOMAIN onGpu
               PROVE  onGpu[i].cells \subseteq Memories /\ \A m \in onGpu[i].cells : content'[m] \in {"old", "zero"}
    BY <1>1 DEF CellsFresh, Fresh
  <2>1. onGpu[i].cells \subseteq Memories /\ \A m \in onGpu[i].cells : content[m] \in {"old", "zero"}
    BY DEF ContentInv, CellsFresh, Fresh
  <2> QED BY <1>1, <2>1
<1> QED BY <1>7, <1>8, <1>9, <1>10 DEF ContentInv

LEMMA ContentInvStep ==
  ASSUME SeqInv, OwnerInv, ListInv, GpuInv, RangeInv, RangeInv', QueueInv, ContentInv, [Next]_vars
  PROVE  ContentInv'
<1> USE ObjectNames
<1>0. /\ pc \in [Objects -> {"none", "taken", "flushes", "live", "check", "search", "blocked", "returns"}]
      /\ content \in [Memories -> {"old", "zero", "data", "spoilt"}]
      /\ DOMAIN onGpu = 1 .. Len(onGpu) /\ Len(onGpu) \in Nat
  BY GpuFacts DEF SeqInv, TypeOK
<1>1. ASSUME NEW a \in Allocs, FillAllocation(a)  PROVE ContentInv'
  <2>1. /\ pc[a] = "taken" /\ mutex = "free" /\ mutex' # "waits"
        /\ Range(transfers') = Range(transfers) \cup {Clear(a)}
        /\ pc' = [pc EXCEPT ![a] = IF mutex' = "free" THEN "live" ELSE "flushes"]
        /\ UNCHANGED <<content, onGpu, zeroed, offset>>
    BY <1>1, RangeOfAppend DEF FillAllocation, Execute, At, SeqInv, chunkVars, gpuVars
  <2>2. /\ \A o : Listed(o)' <=> Listed(o) \/ o = a
        /\ \A set : Fresh(set)' <=> Fresh(set)
        /\ \A b : MemoryOf(b)' = MemoryOf(b)
    <3>1. \A x : Clear(x).of = x
      BY DEF Clear
    <3> QED BY <2>1, <3>1 DEF Listed, Clear, Fresh, MemoryOf
  <2>3. \A b \in Allocs \ {a} : pc'[b] = pc[b]
    BY <1>0, <2>1
  <2>4. NothingIsSpoilt'
    BY <2>1 DEF ContentInv, NothingIsSpoilt
  <2>5. FreshBefore'
    <3> SUFFICES ASSUME NEW b \in Allocs, pc'[b] = "taken" \/ Listed(b)'
                 PROVE  \A m \in MemoryOf(b) : content[m] \in {"old", "zero"}
      BY <2>1, <2>2 DEF FreshBefore, Fresh
    <3> QED BY <2>1, <2>2, <2>3 DEF ContentInv, FreshBefore, Fresh
  <2>6. ClearedFirst'
    BY <2>1, <2>2, <2>3 DEF ContentInv, ClearedFirst
  <2>7. CellsFresh'
    BY <2>1 DEF ContentInv, CellsFresh, Fresh
  <2> QED BY <2>4, <2>5, <2>6, <2>7 DEF ContentInv
<1>2. ASSUME Submit  PROVE ContentInv'
  <2> DEFINE cells == UNION {MemoryOf(t.of) : t \in {u \in Range(transfers) : u.op = "clear"}}
             new   == [value |-> next, buffer |-> buffer, ops |-> transfers, cells |-> cells]
  <2>1. /\ mutex = "submit" /\ mutex' = "waits" /\ onGpu' = Append(onGpu, new)
        /\ UNCHANGED <<content, zeroed, offset, pc>>
    BY <1>2 DEF Submit, objVars, chunkVars
  <2>2. new.cells = cells
    OBVIOUS
  <2>3. ASSUME NEW t \in Range(transfers), t.op = "clear"
        PROVE  MemoryOf(t.of) \subseteq Memories /\ Fresh(MemoryOf(t.of))
    <3>1. t.of \in Allocs /\ t = Clear(t.of)
      BY <2>3, ListedTransfers DEF Range
    <3>2. Listed(t.of)
      BY <2>1, <3>1 DEF Listed
    <3>3. pc[t.of] # "none"
      BY <3>1, <3>2 DEF OwnerInv, Busy
    <3> QED BY <3>1, <3>2, <3>3, MemoryExists DEF ContentInv, FreshBefore
  <2>4. ASSUME NEW a \in Allocs, Listed(a)  PROVE MemoryOf(a) \subseteq cells
    <3>1. Clear(a) \in Range(transfers) /\ Clear(a).op = "clear" /\ Clear(a).of = a
      BY <2>4 DEF Listed, Clear
    <3> QED BY <3>1
  <2>5. cells \subseteq Memories /\ \A m \in cells : content[m] \in {"old", "zero"}
    BY <2>3 DEF Fresh
  <2> HIDE DEF new, cells
  <2>6. /\ DOMAIN onGpu' = 1 .. Len(onGpu) + 1
        /\ \A k \in 1 .. Len(onGpu) : onGpu'[k] = onGpu[k]
        /\ onGpu'[Len(onGpu) + 1] = new
    BY <2>1, AppendElements DEF SeqInv
  <2>7. NothingIsSpoilt'
    BY <2>1 DEF ContentInv, NothingIsSpoilt
  <2>8. \A o : ~Listed(o)'
    BY <2>1 DEF Listed
  <2>9. FreshBefore'
    BY <2>1, <2>8 DEF ContentInv, FreshBefore, Fresh, MemoryOf
  <2>10. ClearedFirst'
    <3> SUFFICES ASSUME NEW a \in Allocs, zeroed[a], pc[a] \in {"flushes", "live"}
                 PROVE  \/ \E i \in DOMAIN onGpu' : MemoryOf(a) \subseteq onGpu'[i].cells
                        \/ \A m \in MemoryOf(a) : content[m] # "old"
      BY <2>1 DEF ClearedFirst, MemoryOf
    <3>1. CASE Listed(a)
      <4>1. Len(onGpu) + 1 \in DOMAIN onGpu' /\ MemoryOf(a) \subseteq onGpu'[Len(onGpu) + 1].cells
        BY <1>0, <2>2, <2>4, <2>6, <3>1
      <4> QED BY <4>1
    <3>2. CASE \E i \in DOMAIN onGpu : MemoryOf(a) \subseteq onGpu[i].cells
      <4>1. PICK i \in DOMAIN onGpu : MemoryOf(a) \subseteq onGpu[i].cells
        BY <3>2
      <4>2. i \in DOMAIN onGpu' /\ onGpu'[i] = onGpu[i]
        BY <1>0, <2>6
      <4> QED BY <4>1, <4>2
    <3> QED BY <3>1, <3>2 DEF ContentInv, ClearedFirst
  <2>11. CellsFresh'
    <3> SUFFICES ASSUME NEW i \in DOMAIN onGpu'
                 PROVE  onGpu'[i].cells \subseteq Memories /\ \A m \in onGpu'[i].cells : content[m] \in {"old", "zero"}
      BY <2>1 DEF CellsFresh, Fresh
    <3>1. CASE i \in 1 .. Len(onGpu)
      BY <1>0, <2>6, <3>1 DEF ContentInv, CellsFresh, Fresh
    <3>2. CASE i = Len(onGpu) + 1
      BY <2>2, <2>5, <2>6, <3>2
    <3> QED BY <2>6, <3>1, <3>2
  <2> QED BY <2>7, <2>9, <2>10, <2>11 DEF ContentInv
<1>3. ASSUME GpuTransfers  PROVE ContentInv'
  <2> DEFINE cells == Head(onGpu).cells
  <2>1. /\ onGpu # <<>> /\ onGpu' = Tail(onGpu) /\ UNCHANGED <<zeroed, offset, pc, transfers, mutex>>
        /\ content' = [m \in Memories |-> IF m \notin cells THEN content[m]
                                          ELSE IF content[m] \in {"data", "spoilt"} THEN "spoilt" ELSE "zero"]
    BY <1>3 DEF GpuTransfers, chunkVars, flushVars, listVars
  <2>2. /\ DOMAIN onGpu' = 1 .. Len(onGpu) - 1 /\ Head(onGpu) = onGpu[1] /\ 1 \in DOMAIN onGpu
        /\ \A i \in 1 .. Len(onGpu) - 1 : onGpu'[i] = onGpu[i + 1]
    BY <1>0, <2>1, TailElements DEF SeqInv
  <2>3. \A m \in cells : m \in Memories /\ content[m] \in {"old", "zero"}
    BY <2>2 DEF ContentInv, CellsFresh, Fresh
  <2> HIDE DEF cells
  <2>4. /\ \A m \in Memories : content'[m] = IF m \in cells THEN "zero" ELSE content[m]
        /\ cells \subseteq Memories
    BY <2>1, <2>3
  <2>5. /\ \A o : Listed(o)' <=> Listed(o)
        /\ \A b : MemoryOf(b)' = MemoryOf(b)
    BY <2>1 DEF Listed, Clear, MemoryOf
  <2>6. NothingIsSpoilt'
    BY <2>4 DEF ContentInv, NothingIsSpoilt
  <2>7. FreshBefore'
    <3> SUFFICES ASSUME NEW a \in Allocs, pc[a] = "taken" \/ Listed(a)
                 PROVE  \A m \in MemoryOf(a) : content'[m] \in {"old", "zero"}
      BY <2>1, <2>5 DEF FreshBefore, Fresh
    <3>1. pc[a] # "none"
      BY DEF OwnerInv, Busy
    <3>2. MemoryOf(a) \subseteq Memories /\ \A m \in MemoryOf(a) : content[m] \in {"old", "zero"}
      BY <3>1, MemoryExists DEF ContentInv, FreshBefore, Fresh
    <3> QED BY <2>4, <3>2
  <2>8. ClearedFirst'
    <3> SUFFICES ASSUME NEW a \in Allocs, zeroed[a], pc[a] \in {"flushes", "live"}, ~Listed(a)
                 PROVE  \/ \E i \in DOMAIN onGpu' : MemoryOf(a) \subseteq onGpu'[i].cells
                        \/ \A m \in MemoryOf(a) : content'[m] # "old"
      BY <2>1, <2>5 DEF ClearedFirst
    <3>1. MemoryOf(a) \subseteq Memories
      BY MemoryExists
    <3>2. CASE \A m \in MemoryOf(a) : content[m] # "old"
      BY <2>4, <3>1, <3>2
    <3>3. CASE \E i \in DOMAIN onGpu : MemoryOf(a) \subseteq onGpu[i].cells
      <4>1. PICK i \in DOMAIN onGpu : MemoryOf(a) \subseteq onGpu[i].cells
        BY <3>3
      <4>2. CASE i = 1
        BY <2>2, <2>4, <3>1, <4>1, <4>2 DEF cells
      <4>3. CASE i # 1
        <5>1. i - 1 \in DOMAIN onGpu' /\ onGpu'[i - 1] = onGpu[i]
          BY <1>0, <2>2, <4>3
        <5> QED BY <4>1, <5>1
      <4> QED BY <4>2, <4>3
    <3> QED BY <3>2, <3>3 DEF ContentInv, ClearedFirst
  <2>9. CellsFresh'
    <3> SUFFICES ASSUME NEW i \in DOMAIN onGpu'
                 PROVE  onGpu'[i].cells \subseteq Memories /\ \A m \in onGpu'[i].cells : content'[m] \in {"old", "zero"}
      BY DEF CellsFresh, Fresh
    <3>1. i + 1 \in DOMAIN onGpu /\ onGpu'[i] = onGpu[i + 1]
      BY <1>0, <2>2
    <3>2. onGpu'[i].cells \subseteq Memories /\ \A m \in onGpu'[i].cells : content[m] \in {"old", "zero"}
      BY <3>1 DEF ContentInv, CellsFresh, Fresh
    <3> QED BY <2>4, <3>2
  <2> QED BY <2>6, <2>7, <2>8, <2>9 DEF ContentInv
<1>4. ASSUME NEW q \in Queues, GpuWork(q)  PROVE ContentInv'
  <2> DEFINE a == Head(gpuQueue[q]).of
  <2>1. /\ gpuQueue[q] # <<>> /\ sem >= Head(gpuQueue[q]).wait
        /\ UNCHANGED <<zeroed, offset, pc, transfers, mutex, onGpu>>
        /\ content' = [m \in Memories |-> IF m \notin MemoryOf(a) THEN content[m]
                                          ELSE IF content[m] = "spoilt" \/ (zeroed[a] /\ content[m] = "old")
                                          THEN "spoilt" ELSE "data"]
    BY <1>4 DEF GpuWork, chunkVars, flushVars, listVars, gpuVars
  <2>2. Head(gpuQueue[q]) = gpuQueue[q][1] /\ 1 \in DOMAIN gpuQueue[q]
    BY <2>1, TailElements DEF SeqInv
  <2>3. a \in Allocs /\ work[a] = "submitted" /\ gpuQueue[q][1].wait \in 0 .. next
    BY <2>2 DEF QueueInv, JobsInv
  <2>4. pc[a] = "live" /\ ~Listed(a)
    BY <2>3 DEF OwnerInv, Listed, InList
  \* The job waited for all clears that the GPU has not finished: none is of its memory.
  <2>5. ASSUME NEW k \in DOMAIN onGpu  PROVE ~Meets(k, a)
    <3> SUFFICES ASSUME Meets(k, a)  PROVE FALSE
      OBVIOUS
    <3>1. PICK j \in 1 .. 1 : gpuQueue[q][j].wait >= onGpu[k].value
      BY <2>2 DEF QueueInv, JobsWait
    <3>2. j = 1
      OBVIOUS
    <3>3. sem \in Nat /\ onGpu[k].value \in Nat /\ onGpu[k].value > sem
      BY GpuFacts
    <3> QED BY <2>1, <2>2, <2>3, <3>1, <3>2, <3>3
  <2> HIDE DEF a
  <2>6. MemoryOf(a) \subseteq Memories /\ MemoryOf(a) # {}
    BY <2>3, <2>4, MemoryExists
  <2>7. zeroed[a] => \A m \in MemoryOf(a) : content[m] # "old"
    <3>1. ASSUME NEW i \in DOMAIN onGpu, MemoryOf(a) \subseteq onGpu[i].cells  PROVE FALSE
      BY <2>5, <2>6, <3>1 DEF Meets
    <3> QED BY <2>3, <2>4, <3>1 DEF ContentInv, ClearedFirst
  <2>8. \A m \in Memories : content'[m] = IF m \in MemoryOf(a) THEN "data" ELSE content[m]
    BY <2>1, <2>7 DEF ContentInv, NothingIsSpoilt
  <2>9. /\ \A o : Listed(o)' <=> Listed(o)
        /\ \A b : MemoryOf(b)' = MemoryOf(b)
    BY <2>1 DEF Listed, Clear, MemoryOf
  <2>10. NothingIsSpoilt'
    BY <2>8 DEF ContentInv, NothingIsSpoilt
  <2>11. FreshBefore'
    <3> SUFFICES ASSUME NEW b \in Allocs, pc[b] = "taken" \/ Listed(b)
                 PROVE  \A m \in MemoryOf(b) : content'[m] \in {"old", "zero"}
      BY <2>1, <2>9 DEF FreshBefore, Fresh
    <3>1. pc[b] # "none" /\ b # a
      BY <2>4 DEF OwnerInv, Busy
    <3>2. MemoryOf(b) \subseteq Memories /\ \A m \in MemoryOf(b) : content[m] \in {"old", "zero"}
      BY <3>1, MemoryExists DEF ContentInv, FreshBefore, Fresh
    <3>3. MemoryOf(b) \cap MemoryOf(a) = {}
      BY <2>3, <2>4, <3>1, MemoriesApart
    <3> QED BY <2>8, <3>2, <3>3
  <2>12. ClearedFirst'
    <3> SUFFICES ASSUME NEW b \in Allocs, zeroed[b], pc[b] \in {"flushes", "live"}, ~Listed(b)
                 PROVE  \/ \E i \in DOMAIN onGpu : MemoryOf(b) \subseteq onGpu[i].cells
                        \/ \A m \in MemoryOf(b) : content'[m] # "old"
      BY <2>1, <2>9 DEF ClearedFirst
    <3>1. MemoryOf(b) \subseteq Memories
      BY MemoryExists
    <3> QED BY <2>8, <3>1 DEF ContentInv, ClearedFirst
  <2>13. CellsFresh'
    <3> SUFFICES ASSUME NEW i \in DOMAIN onGpu
                 PROVE  onGpu[i].cells \subseteq Memories /\ \A m \in onGpu[i].cells : content'[m] \in {"old", "zero"}
      BY <2>1 DEF CellsFresh, Fresh
    <3>1. onGpu[i].cells \subseteq Memories /\ \A m \in onGpu[i].cells : content[m] \in {"old", "zero"}
      BY DEF ContentInv, CellsFresh, Fresh
    <3>2. onGpu[i].cells \cap MemoryOf(a) = {}
      BY <2>5 DEF Meets
    <3> QED BY <2>8, <3>1, <3>2
  <2> QED BY <2>10, <2>11, <2>12, <2>13 DEF ContentInv
<1>5. CASE \E a \in Allocs : \/ \E z \in Kinds : Suballocate(a, z) \/ Allocate(a, z)
                             \/ FillAllocation(a) \/ ExecuteCommandLists(a) \/ FreeMemory(a)
                             \/ \E q \in Queues : SubmitWork(a, q)
  <2>1. CASE \E a \in Allocs : ExecuteCommandLists(a) \/ FreeMemory(a) \/ \E q \in Queues : SubmitWork(a, q)
    BY <2>1, ContentFrames, ContentKept
  <2>2. CASE \E a \in Allocs, z \in Kinds : Suballocate(a, z) \/ Allocate(a, z)
    BY <2>2, NewMemory
  <2> QED BY <1>1, <1>5, <2>1, <2>2
<1>6. CASE Gpu \/ Flush \/ Track
  <2>1. CASE (\E q \in Queues : AddWait(q)) \/ FlushEnds \/ Track \/ \E recorded \in BOOLEAN : FlushFails(recorded)
    BY <2>1, ContentFrames, ContentKept
  <2> QED BY <1>2, <1>3, <1>4, <1>6, <2>1 DEF Gpu, Flush
<1>7. CASE \/ \E r \in Textures : WriteSubresource(r) \/ ReleaseTexture(r)
           \/ (\E o \in Objects : Free(o)) \/ UNCHANGED vars
  BY <1>7, ContentFrames, ContentKept
<1> QED BY <1>5, <1>6, <1>7 DEF Next

-----------------------------------------------------------------------------
(* Types.                                                                  *)

\* Splits a step into the actions.
ObjectSteps(o) ==
  \/ \E z \in Kinds : Suballocate(o, z) \/ Allocate(o, z)
  \/ FillAllocation(o) \/ ExecuteCommandLists(o) \/ FreeMemory(o)
  \/ \E q \in Queues : SubmitWork(o, q)

PcType   == pc \in [Objects -> {"none", "taken", "flushes", "live", "check", "search", "blocked", "returns"}]
WorkType == work \in [Allocs -> {"none", "flushes", "queued", "submitted"}]
ObjectType ==
  /\ PcType /\ WorkType /\ zeroed \in [Allocs -> BOOLEAN]
  /\ content \in [Memories -> {"old", "zero", "data", "spoilt"}]
ValueType ==
  /\ next \in Nat /\ clear \in [Objects -> 0 .. next] /\ until \in [Objects -> 0 .. next]
  /\ buffer \in 0 .. Buffers - 1 /\ sem \in 0 .. next /\ waits \in [Queues -> 0 .. next]

LEMMA ObjectTypes ==
  ASSUME SeqInv, GpuInv, [Next]_vars
  PROVE  ObjectType'
<1> USE ObjectNames, KindsAssumption DEF PcType, WorkType, ObjectType
<1>0. ObjectType
  BY DEF SeqInv, TypeOK
<1>1. ASSUME NEW a \in Allocs, NEW z \in Kinds, Suballocate(a, z)  PROVE ObjectType'
  BY <1>0, <1>1 DEF Suballocate
<1>2. ASSUME NEW a \in Allocs, NEW z \in Kinds, Allocate(a, z)  PROVE ObjectType'
  BY <1>0, <1>2 DEF Allocate, At
<1>3. ASSUME NEW a \in Allocs, FillAllocation(a) \/ FreeMemory(a)  PROVE ObjectType'
  BY <1>0, <1>3 DEF FillAllocation, FreeMemory, At
<1>4. ASSUME NEW a \in Allocs, ExecuteCommandLists(a) \/ \E q \in Queues : SubmitWork(a, q)  PROVE ObjectType'
  BY <1>0, <1>4 DEF ExecuteCommandLists, SubmitWork
<1>5. ASSUME FlushEnds \/ \E recorded \in BOOLEAN : FlushFails(recorded)  PROVE ObjectType'
  BY <1>0, <1>5 DEF FlushEnds, FlushFails, Resume
<1>6. ASSUME GpuTransfers  PROVE ObjectType'
  BY <1>0, <1>6 DEF GpuTransfers
<1>7. ASSUME NEW q \in Queues, GpuWork(q)  PROVE ObjectType'
  BY <1>0, <1>7 DEF GpuWork
<1>8. ASSUME NEW o \in Objects, Free(o)  PROVE ObjectType'
  <2>1. CASE CheckDone(o) \/ TakeFromList(o) \/ NotInList(o) \/ Waited(o)
    BY <1>0, <2>1 DEF CheckDone, TakeFromList, NotInList, Waited, At
  <2>2. CASE ReturnRange(o) \/ ReturnMemory(o)
    BY <1>0, <2>2 DEF ReturnRange, ReturnMemory, At
  <2> QED BY <1>8, <2>1, <2>2 DEF Free
<1>9. ASSUME \/ \E r \in Textures : WriteSubresource(r) \/ ReleaseTexture(r)
             \/ Submit \/ (\E q \in Queues : AddWait(q)) \/ Track \/ UNCHANGED vars
      PROVE  ObjectType'
  BY <1>0, <1>9 DEF WriteSubresource, ReleaseTexture, Submit, AddWait, Track, TakeBatch, ReleaseTracked, vars, objVars
<1> HIDE DEF ObjectType
<1>10. CASE \E a \in Allocs : ObjectSteps(a)
  BY <1>1, <1>2, <1>3, <1>4, <1>10 DEF ObjectSteps
<1>11. CASE Gpu \/ Flush \/ Track
  BY <1>5, <1>6, <1>7, <1>9, <1>11 DEF Gpu, Flush
<1> QED BY <1>8, <1>9, <1>10, <1>11 DEF Next, ObjectSteps

LEMMA ValueTypes ==
  ASSUME SeqInv, GpuInv, [Next]_vars
  PROVE  ValueType'
<1> USE ObjectNames DEF ValueType
<1>0. ValueType /\ Buffers \in Nat \ {0}
  BY SizesAssumption DEF SeqInv, TypeOK
<1> USE DEF listVars, gpuVars, queueVars
<1>1. ASSUME NEW a \in Allocs, \E z \in Kinds : Suballocate(a, z) \/ Allocate(a, z)  PROVE ValueType'
  BY <1>0, <1>1 DEF Suballocate, Allocate
<1>2. ASSUME NEW a \in Allocs, FillAllocation(a)  PROVE ValueType'
  BY <1>0, <1>2 DEF FillAllocation, Execute
<1>3. ASSUME NEW a \in Allocs, ExecuteCommandLists(a) \/ FreeMemory(a)  PROVE ValueType'
  BY <1>0, <1>3 DEF ExecuteCommandLists, FreeMemory
<1>4. ASSUME NEW a \in Allocs, NEW q \in Queues, SubmitWork(a, q)  PROVE ValueType'
  BY <1>0, <1>4 DEF SubmitWork
<1>5. ASSUME NEW r \in Textures, WriteSubresource(r) \/ ReleaseTexture(r)  PROVE ValueType'
  BY <1>0, <1>5 DEF WriteSubresource, Execute, ReleaseTexture, objVars
<1>6. ASSUME GpuTransfers  PROVE ValueType'
  <2>1. Head(onGpu).value \in 0 .. next
    <3>1. onGpu # <<>>
      BY <1>6 DEF GpuTransfers
    <3>2. 1 \in DOMAIN onGpu /\ Head(onGpu) = onGpu[1]
      BY <3>1, TailElements DEF SeqInv
    <3>3. onGpu[1].value \in Nat /\ onGpu[1].value <= Submitted /\ Submitted <= next /\ Submitted \in Nat
      BY <3>2, GpuFacts
    <3> QED BY <1>0, <3>2, <3>3
  <2> QED BY <1>0, <1>6, <2>1 DEF GpuTransfers
<1>7. ASSUME (\E q \in Queues : GpuWork(q)) \/ Track \/ Submit \/ \E recorded \in BOOLEAN : FlushFails(recorded)
      PROVE  ValueType'
  BY <1>0, <1>7 DEF GpuWork, Track, TakeBatch, ReleaseTracked, Submit, FlushFails, Resume, objVars
<1>8. ASSUME NEW q \in Queues, AddWait(q)  PROVE ValueType'
  BY <1>0, <1>8 DEF AddWait, objVars
<1>9. ASSUME FlushEnds  PROVE ValueType'
  <2>1. /\ next' = next + 1 /\ clear' = clear /\ until' = until /\ sem' = sem /\ waits' = waits
        /\ buffer' = (buffer + 1) % Buffers
    BY <1>9 DEF FlushEnds, Resume
  <2>2. buffer' \in 0 .. Buffers - 1
    BY <1>0, <2>1, NextBuffer
  <2>3. 0 .. next \subseteq 0 .. next'
    BY <1>0, <2>1
  <2> QED BY <1>0, <2>1, <2>2, <2>3
<1>10. ASSUME NEW o \in Objects, Free(o)  PROVE ValueType'
  <2>0. \/ CheckDone(o) \/ TakeFromList(o) \/ NotInList(o)
        \/ Waited(o) \/ ReturnRange(o) \/ ReturnMemory(o)
    BY <1>10 DEF Free
  <2> HIDE DEF ValueType
  <2>1. CASE CheckDone(o) \/ TakeFromList(o)
    BY <1>0, <2>1 DEF CheckDone, TakeFromList, ValueType
  <2>2. CASE NotInList(o)
    <3>1. next - 1 \in 0 .. next
      <4>1. next - 1 = Submitted /\ Submitted \in Nat
        BY <2>2, GpuFacts DEF NotInList
      <4> QED BY <1>0, <4>1 DEF ValueType
    <3> QED BY <1>0, <2>2, <3>1 DEF NotInList, ValueType
  <2>3. CASE Waited(o) \/ ReturnMemory(o)
    <3>1. 0 \in 0 .. next
      BY <1>0 DEF ValueType
    <3>2. next' = next /\ buffer' = buffer /\ sem' = sem /\ waits' = waits
      BY <2>3 DEF Waited, ReturnMemory
    <3>3. clear' \in [Objects -> 0 .. next] /\ until' \in [Objects -> 0 .. next]
      <4>1. clear \in [Objects -> 0 .. next] /\ until \in [Objects -> 0 .. next]
        BY <1>0 DEF ValueType
      <4>2. CASE Waited(o)
        BY <3>1, <4>1, <4>2 DEF Waited
      <4>3. CASE ReturnMemory(o)
        BY <3>1, <4>1, <4>3 DEF ReturnMemory
      <4> QED BY <2>3, <4>2, <4>3
    <3> QED BY <1>0, <3>2, <3>3 DEF ValueType
  <2>4. CASE ReturnRange(o)
    BY <1>0, <2>4 DEF ReturnRange, ValueType
  <2> QED BY <2>0, <2>1, <2>2, <2>3, <2>4
<1>11. ASSUME UNCHANGED vars  PROVE ValueType'
  BY <1>0, <1>11 DEF vars, objVars
<1> HIDE DEF ValueType
<1>12. CASE \E a \in Allocs : ObjectSteps(a)
  BY <1>1, <1>2, <1>3, <1>4, <1>12 DEF ObjectSteps
<1>13. CASE Gpu \/ Flush \/ Track
  BY <1>6, <1>7, <1>8, <1>9, <1>13 DEF Gpu, Flush
<1> QED BY <1>5, <1>10, <1>11, <1>12, <1>13 DEF Next, ObjectSteps

MutexType ==
  /\ mutex \in {"free", "submit", "waits"} /\ flusher \in Objects \cup {Nobody} /\ todo \subseteq Queues
  /\ (mutex = "free") => (flusher = Nobody /\ todo = {})
  /\ mutex # "waits" => todo = {}

LEMMA MutexTypes ==
  ASSUME SeqInv, [Next]_vars
  PROVE  MutexType'
<1> USE ObjectNames
<1>0. MutexType
  BY DEF SeqInv, TypeOK, MutexType
<1> USE DEF flushVars, MutexType
<1>1. ASSUME NEW a \in Allocs, FillAllocation(a) \/ ExecuteCommandLists(a)  PROVE MutexType'
  BY <1>0, <1>1 DEF FillAllocation, Execute, ExecuteCommandLists
<1>2. ASSUME NEW a \in Allocs, \/ FreeMemory(a) \/ (\E z \in Kinds : Suballocate(a, z) \/ Allocate(a, z))
                               \/ \E q \in Queues : SubmitWork(a, q)
      PROVE  MutexType'
  BY <1>0, <1>2 DEF FreeMemory, Suballocate, Allocate, SubmitWork
<1>3. ASSUME NEW r \in Textures, WriteSubresource(r) \/ ReleaseTexture(r)  PROVE MutexType'
  BY <1>0, <1>3 DEF WriteSubresource, Execute, ReleaseTexture
<1>4. ASSUME Flush  PROVE MutexType'
  BY <1>0, <1>4 DEF Flush, Submit, FlushFails, AddWait, FlushEnds, Resume
<1>5. ASSUME Gpu \/ Track \/ UNCHANGED vars  PROVE MutexType'
  BY <1>0, <1>5 DEF Gpu, GpuTransfers, GpuWork, Track, TakeBatch, ReleaseTracked, vars
<1>6. ASSUME NEW o \in Objects, Free(o)  PROVE MutexType'
  BY <1>0, <1>6 DEF Free, CheckDone, TakeFromList, NotInList, Waited, ReturnRange, ReturnMemory
<1>7. CASE \E a \in Allocs : ObjectSteps(a)
  BY <1>1, <1>2, <1>7 DEF ObjectSteps
<1> QED BY <1>3, <1>4, <1>5, <1>6, <1>7 DEF Next, ObjectSteps

ListType ==
  /\ IsSeq(transfers)
  /\ \A i \in DOMAIN transfers : transfers[i] \in {Clear(a) : a \in Allocs} \cup {Write(r) : r \in Textures}

LEMMA ListTypes ==
  ASSUME SeqInv, [Next]_vars
  PROVE  ListType'
<1>0. ListType
  BY DEF SeqInv, TypeOK, ListType
<1>1. ASSUME NEW t \in {Clear(a) : a \in Allocs} \cup {Write(r) : r \in Textures},
             transfers' = Append(transfers, t)
      PROVE  ListType'
  <2>1. /\ IsSeq(transfers') /\ DOMAIN transfers = 1 .. Len(transfers) /\ Len(transfers) \in Nat
        /\ DOMAIN transfers' = 1 .. (Len(transfers) + 1)
        /\ \A i \in 1 .. Len(transfers) : transfers'[i] = transfers[i]
        /\ transfers'[Len(transfers) + 1] = t
    BY <1>0, <1>1, AppendElements DEF ListType
  <2>2. \A i \in DOMAIN transfers' : i \in DOMAIN transfers \/ i = Len(transfers) + 1
    BY <2>1
  <2> QED BY <1>0, <2>1, <2>2 DEF ListType
<1>2. ASSUME UNCHANGED transfers  PROVE ListType'
  BY <1>0, <1>2 DEF ListType
<1>3. ASSUME transfers' = <<>>  PROVE ListType'
  BY <1>3 DEF ListType, IsSeq
<1>4. ASSUME NEW a \in Allocs, FillAllocation(a)  PROVE ListType'
  <2>1. transfers' = Append(transfers, Clear(a))
    BY <1>4 DEF FillAllocation, Execute
  <2> QED BY <1>1, <2>1
<1>5. ASSUME NEW r \in Textures, WriteSubresource(r)  PROVE ListType'
  <2>1. transfers' = Append(transfers, Write(r))
    BY <1>5 DEF WriteSubresource, Execute
  <2> QED BY <1>1, <2>1
<1>6. ASSUME NEW o \in Objects, TakeFromList(o)  PROVE ListType'
  <2>1. PICK i \in DOMAIN transfers : transfers' = Remove(i)
    BY <1>6 DEF TakeFromList
  <2>2. /\ IsSeq(Remove(i)) /\ DOMAIN Remove(i) = 1 .. Len(transfers) - 1
        /\ DOMAIN transfers = 1 .. Len(transfers) /\ Len(transfers) \in Nat
        /\ \A j \in DOMAIN Remove(i) : Remove(i)[j] = transfers[IF j = i THEN Len(transfers) ELSE j]
    BY <1>0, RemoveOk DEF ListType
  <2>3. \A j \in DOMAIN Remove(i) : (IF j = i THEN Len(transfers) ELSE j) \in DOMAIN transfers
    BY <2>2
  <2> QED BY <1>0, <2>1, <2>2, <2>3 DEF ListType
<1>7. ASSUME FlushEnds  PROVE ListType'
  BY <1>3, <1>7 DEF FlushEnds
<1>8. ASSUME NEW a \in Allocs, \/ \E z \in Kinds : Suballocate(a, z) \/ Allocate(a, z)
                               \/ ExecuteCommandLists(a) \/ FreeMemory(a) \/ \E q \in Queues : SubmitWork(a, q)
      PROVE  ListType'
  BY <1>2, <1>8 DEF Suballocate, Allocate, ExecuteCommandLists, FreeMemory, SubmitWork, listVars
<1>9. ASSUME \/ \E r \in Textures : ReleaseTexture(r)
             \/ Submit \/ (\E recorded \in BOOLEAN : FlushFails(recorded)) \/ (\E q \in Queues : AddWait(q))
             \/ Gpu \/ Track \/ UNCHANGED vars
      PROVE  ListType'
  BY <1>2, <1>9 DEF ReleaseTexture, Submit, FlushFails, AddWait, Gpu, GpuTransfers, GpuWork, Track, TakeBatch,
                    ReleaseTracked, vars, listVars
<1>10. ASSUME NEW o \in Objects, Free(o)  PROVE ListType'
  <2>1. CASE CheckDone(o) \/ NotInList(o) \/ Waited(o) \/ ReturnRange(o) \/ ReturnMemory(o)
    BY <1>2, <2>1 DEF CheckDone, NotInList, Waited, ReturnRange, ReturnMemory, listVars
  <2> QED BY <1>6, <1>10, <2>1 DEF Free
<1>11. CASE \E a \in Allocs : ObjectSteps(a)
  BY <1>4, <1>8, <1>11 DEF ObjectSteps
<1>12. CASE Flush
  BY <1>7, <1>9, <1>12 DEF Flush
<1> QED BY <1>5, <1>9, <1>10, <1>11, <1>12 DEF Next, ObjectSteps

LEMMA PendingType ==
  ASSUME ListType, ListInv
  PROVE  pending \in Nat
<1> DEFINE I == {i \in DOMAIN transfers : transfers[i].op = "clear"}
<1>1. DOMAIN transfers = 1 .. Len(transfers) /\ Len(transfers) \in Nat
  BY AppendElements DEF ListType
<1>2. Cardinality(I) \in Nat
  BY <1>1, IndicesAreFinite
<1> QED BY <1>2 DEF ListInv, PendingIsListed

GpuSeqs == IsSeq(onGpu) /\ DOMAIN gpuQueue = Queues /\ \A q \in Queues : IsSeq(gpuQueue[q])

LEMMA GpuSeqsOk ==
  ASSUME SeqInv, [Next]_vars
  PROVE  GpuSeqs'
<1>0. GpuSeqs
  BY DEF SeqInv, GpuSeqs
<1>1. ASSUME UNCHANGED <<onGpu, gpuQueue>>  PROVE GpuSeqs'
  BY <1>0, <1>1 DEF GpuSeqs
<1>2. ASSUME Submit  PROVE GpuSeqs'
  <2>1. PICK e : onGpu' = Append(onGpu, e)
    BY <1>2 DEF Submit
  <2>2. gpuQueue' = gpuQueue
    BY <1>2 DEF Submit, queueVars
  <2>3. IsSeq(onGpu')
    BY <1>0, <2>1, AppendElements DEF GpuSeqs
  <2> QED BY <1>0, <2>2, <2>3 DEF GpuSeqs
<1>3. ASSUME GpuTransfers  PROVE GpuSeqs'
  <2>1. IsSeq(onGpu') /\ gpuQueue' = gpuQueue
    BY <1>0, <1>3, TailElements DEF GpuTransfers, GpuSeqs, queueVars
  <2> QED BY <1>0, <2>1 DEF GpuSeqs
<1>4. ASSUME NEW a \in Allocs, NEW q \in Queues, SubmitWork(a, q)  PROVE GpuSeqs'
  <2>1. PICK e : gpuQueue' = [gpuQueue EXCEPT ![q] = Append(@, e)]
    BY <1>4 DEF SubmitWork
  <2>2. onGpu' = onGpu
    BY <1>4 DEF SubmitWork, gpuVars
  <2>3. IsSeq(Append(gpuQueue[q], e))
    BY <1>0, AppendElements DEF GpuSeqs
  <2> QED BY <1>0, <2>1, <2>2, <2>3 DEF GpuSeqs
<1>5. ASSUME NEW q \in Queues, GpuWork(q)  PROVE GpuSeqs'
  <2>1. gpuQueue' = [gpuQueue EXCEPT ![q] = Tail(@)] /\ gpuQueue[q] # <<>> /\ onGpu' = onGpu
    BY <1>5 DEF GpuWork, gpuVars
  <2>2. IsSeq(Tail(gpuQueue[q]))
    BY <1>0, <2>1, TailElements DEF GpuSeqs
  <2> QED BY <1>0, <2>1, <2>2 DEF GpuSeqs
<1>6. ASSUME NEW a \in Allocs, \/ \E z \in Kinds : Suballocate(a, z) \/ Allocate(a, z)
                               \/ FillAllocation(a) \/ ExecuteCommandLists(a) \/ FreeMemory(a)
      PROVE  GpuSeqs'
  BY <1>1, <1>6 DEF Suballocate, Allocate, FillAllocation, ExecuteCommandLists, FreeMemory, gpuVars, queueVars
<1>7. ASSUME \/ \E r \in Textures : WriteSubresource(r) \/ ReleaseTexture(r)
             \/ (\E recorded \in BOOLEAN : FlushFails(recorded)) \/ (\E q \in Queues : AddWait(q)) \/ FlushEnds
             \/ Track \/ UNCHANGED vars
      PROVE  GpuSeqs'
  BY <1>1, <1>7 DEF WriteSubresource, ReleaseTexture, FlushFails, AddWait, FlushEnds, Track, TakeBatch,
                    ReleaseTracked, vars, gpuVars, queueVars
<1>8. ASSUME NEW o \in Objects, Free(o)  PROVE GpuSeqs'
  BY <1>1, <1>8 DEF Free, CheckDone, TakeFromList, NotInList, Waited, ReturnRange, ReturnMemory, gpuVars, queueVars
<1>9. CASE \E a \in Allocs : ObjectSteps(a)
  BY <1>4, <1>6, <1>9 DEF ObjectSteps
<1>10. CASE Gpu \/ Flush \/ Track
  BY <1>2, <1>3, <1>5, <1>7, <1>10 DEF Gpu, Flush
<1> QED BY <1>7, <1>8, <1>9, <1>10 DEF Next, ObjectSteps

TrackSeqs == IsSeq(tracked) /\ IsSeq(batch) /\ mine \in [Textures -> BOOLEAN] /\ refs = [r \in Textures |-> refs[r]]

LEMMA TrackSeqsOk ==
  ASSUME SeqInv, RefInv, [Next]_vars
  PROVE  TrackSeqs'
<1>0. TrackSeqs
  BY DEF SeqInv, TypeOK, TrackSeqs
<1>1. ASSUME UNCHANGED trackVars  PROVE TrackSeqs'
  BY <1>0, <1>1 DEF TrackSeqs, trackVars
<1>2. ASSUME TrackWrites  PROVE TrackSeqs'
  <2>1. IsSeq(tracked') /\ batch' = batch
    BY <1>2, TrackWritesOk
  <2>2. mine' = mine /\ refs' = [r \in Textures |-> refs'[r]]
    BY <1>2 DEF TrackWrites
  <2> QED BY <1>0, <2>1, <2>2 DEF TrackSeqs
<1>3. ASSUME Submit \/ \E recorded \in BOOLEAN : FlushFails(recorded)  PROVE TrackSeqs'
  <2>1. TrackWrites \/ UNCHANGED trackVars
    BY <1>3 DEF Submit, FlushFails
  <2> QED BY <1>1, <1>2, <2>1
<1>4. ASSUME Track  PROVE TrackSeqs'
  <2>1. CASE TakeBatch
    <3>1. batch' = tracked /\ tracked' = <<>> /\ mine' = mine /\ refs' = refs
      BY <2>1 DEF TakeBatch
    <3>2. IsSeq(<<>>)
      BY DEF IsSeq
    <3> QED BY <1>0, <3>1, <3>2 DEF TrackSeqs
  <2>2. CASE ReleaseTracked
    <3>1. IsSeq(batch') /\ tracked' = tracked /\ mine' = mine /\ refs' = [r \in Textures |-> refs'[r]]
      BY <1>0, <2>2, TailElements DEF ReleaseTracked, TrackSeqs
    <3> QED BY <1>0, <3>1 DEF TrackSeqs
  <2> QED BY <1>4, <2>1, <2>2 DEF Track
<1>5. ASSUME NEW r \in Textures, WriteSubresource(r) \/ ReleaseTexture(r)  PROVE TrackSeqs'
  BY <1>0, <1>1, <1>5 DEF WriteSubresource, ReleaseTexture, TrackSeqs
<1>6. ASSUME NEW a \in Allocs, ObjectSteps(a)  PROVE TrackSeqs'
  BY <1>1, <1>6 DEF ObjectSteps, Suballocate, Allocate, FillAllocation, ExecuteCommandLists, FreeMemory, SubmitWork
<1>7. ASSUME Gpu \/ (\E q \in Queues : AddWait(q)) \/ FlushEnds \/ UNCHANGED vars  PROVE TrackSeqs'
  BY <1>1, <1>7 DEF Gpu, GpuTransfers, GpuWork, AddWait, FlushEnds, vars
<1>8. ASSUME NEW o \in Objects, Free(o)  PROVE TrackSeqs'
  BY <1>1, <1>8 DEF Free, CheckDone, TakeFromList, NotInList, Waited, ReturnRange, ReturnMemory
<1>9. CASE Flush
  BY <1>3, <1>7, <1>9 DEF Flush
<1> QED BY <1>4, <1>5, <1>6, <1>7, <1>8, <1>9 DEF Next, ObjectSteps

LEMMA RefsType ==
  ASSUME TrackSeqs, \A r \in Textures : refs[r] = Cardinality(Tracked(tracked, r)) + Cardinality(Tracked(batch, r))
  PROVE  refs \in [Textures -> Nat]
<1>1. \A r \in Textures : Cardinality(Tracked(tracked, r)) \in Nat /\ Cardinality(Tracked(batch, r)) \in Nat
  BY TrackedIsNat DEF TrackSeqs
<1>2. \A r \in Textures : refs[r] \in Nat
  BY <1>1
<1> QED BY <1>2 DEF TrackSeqs

LEMMA OffsetType ==
  ASSUME SeqInv, OwnerInv, RangeInv, [Next]_vars
  PROVE  (offset \in [Subs -> 0 .. ChunkSize - 1])'
<1>0. offset \in [Subs -> 0 .. ChunkSize - 1] /\ ChunkSize \in Nat /\ \A a \in Subs : SizeOf[a] \in Nat \ {0}
  BY SizesAssumption DEF SeqInv, TypeOK
<1>1. ASSUME UNCHANGED offset  PROVE (offset \in [Subs -> 0 .. ChunkSize - 1])'
  BY <1>0, <1>1
<1>2. ASSUME NEW a \in Allocs, NEW z \in Kinds, Suballocate(a, z)
      PROVE  (offset \in [Subs -> 0 .. ChunkSize - 1])'
  <2>1. a \in Subs /\ offset'[a] \in Nat /\ offset'[a] + SizeOf[a] <= ChunkSize
    BY <1>2, SuballocateOk
  <2>2. offset'[a] \in 0 .. ChunkSize - 1
    BY <1>0, <2>1
  <2>3. \E x : offset' = [offset EXCEPT ![a] = x]
    BY <1>2 DEF Suballocate
  <2> QED BY <1>0, <2>1, <2>2, <2>3
<1> DEFINE Kept == offset' = offset
<1>3. ASSUME NEW a \in Allocs, \/ \E z \in Kinds : Allocate(a, z)
                               \/ FillAllocation(a) \/ ExecuteCommandLists(a) \/ FreeMemory(a)
                               \/ \E q \in Queues : SubmitWork(a, q)
      PROVE  Kept
  BY <1>3 DEF Allocate, FillAllocation, ExecuteCommandLists, FreeMemory, SubmitWork, chunkVars
<1>4. ASSUME Flush  PROVE Kept
  BY <1>4 DEF Flush, Submit, FlushFails, AddWait, FlushEnds, Resume, objVars, chunkVars
<1>5. ASSUME (\E r \in Textures : WriteSubresource(r) \/ ReleaseTexture(r)) \/ Gpu \/ Track \/ UNCHANGED vars
      PROVE  Kept
  BY <1>5 DEF WriteSubresource, ReleaseTexture, Gpu, GpuTransfers, GpuWork, Track, TakeBatch, ReleaseTracked,
              vars, objVars, chunkVars
<1>6. ASSUME NEW o \in Objects, Free(o)  PROVE Kept
  BY <1>6 DEF Free, CheckDone, TakeFromList, NotInList, Waited, ReturnRange, ReturnMemory, chunkVars
<1>7. CASE Kept
  BY <1>1, <1>7
<1> HIDE DEF Kept
<1>8. CASE \E a \in Allocs : ObjectSteps(a)
  BY <1>2, <1>3, <1>7, <1>8 DEF ObjectSteps
<1> QED BY <1>4, <1>5, <1>6, <1>7, <1>8 DEF Next, ObjectSteps

LEMMA SeqInvStep ==
  ASSUME SeqInv, OwnerInv, GpuInv, RangeInv, RefInv, ListInv', RefInv', PollInv', [Next]_vars
  PROVE  SeqInv'
<1>1. ObjectType' /\ ValueType' /\ MutexType' /\ ListType' /\ GpuSeqs' /\ TrackSeqs'
      /\ (offset \in [Subs -> 0 .. ChunkSize - 1])'
  BY ObjectTypes, ValueTypes, MutexTypes, ListTypes, GpuSeqsOk, TrackSeqsOk, OffsetType
<1>2. (pending \in Nat)'
  BY <1>1, PendingType, PTL
<1>3. (\A r \in Textures : refs[r] = Cardinality(Tracked(tracked, r)) + Cardinality(Tracked(batch, r)))'
  BY DEF RefInv
<1>4. (refs \in [Textures -> Nat])'
  BY <1>1, <1>3, RefsType, PTL
<1>5. /\ (pc \in [Objects -> {"none", "taken", "flushes", "live", "check", "search", "blocked", "returns"}])'
      /\ (work \in [Allocs -> {"none", "flushes", "queued", "submitted"}])'
      /\ (zeroed \in [Allocs -> BOOLEAN])'
      /\ (content \in [Memories -> {"old", "zero", "data", "spoilt"}])'
  BY <1>1 DEF ObjectType, PcType, WorkType
<1>6. (withdrawn \in BOOLEAN)'
  BY DEF PollInv
<1> QED BY <1>1, <1>2, <1>4, <1>5, <1>6 DEF SeqInv, TypeOK, ValueType, MutexType, ListType, GpuSeqs, TrackSeqs

\* What is in the list stays there until it is flushed or taken back.
LEMMA PollInvStep ==
  ASSUME SeqInv, OwnerInv, ListInv, PollInv, [Next]_vars
  PROVE  PollInv'
<1> USE ObjectNames
<1>0. /\ clear \in [Objects -> 0 .. next] /\ next \in Nat /\ Chunk \in Objects /\ Allocs \subseteq Objects
      /\ work \in [Allocs -> {"none", "flushes", "queued", "submitted"}]
      /\ next # 0 /\ \A a \in Allocs : work[a] # "none" => pc[a] = "live"
  BY DEF SeqInv, TypeOK, OwnerInv, PollInv, Objects
<1>1. ASSUME Range(transfers) \subseteq Range(transfers'), UNCHANGED <<next, withdrawn>>,
             \A o \in Objects : clear'[o] = next => clear[o] = next \/ \E a \in Allocs : InList(a)',
             \A a \in Allocs : InUse(a)' => clear'[a] = clear[a] /\ InUse(a)
      PROVE  PollInv'
  <2>1. \A a : InList(a) => InList(a)'
    BY <1>1 DEF InList, Clear
  <2> QED BY <1>1, <2>1 DEF PollInv
<1> DEFINE Kept == UNCHANGED <<transfers, next, withdrawn>>
<1>2. ASSUME Kept, UNCHANGED <<clear, work>>  PROVE PollInv'
  <2>1. \A a : (InUse(a)' <=> InUse(a)) /\ (InList(a)' <=> InList(a))
    BY <1>2 DEF InUse, InList, Clear
  <2> QED BY <1>2, <2>1 DEF PollInv
<1>3. ASSUME NEW a \in Allocs, NEW z \in Kinds, Suballocate(a, z) \/ Allocate(a, z)  PROVE PollInv'
  <2>1. /\ Kept /\ work' = work /\ pc[a] = "none"
        /\ clear' = [clear EXCEPT ![a] = clear[Chunk]] \/ clear' = [clear EXCEPT ![a] = 0]
    BY <1>3 DEF Suballocate, Allocate, listVars
  <2>2. ~InUse(a)
    BY <1>0, <2>1 DEF InUse
  <2>3. \A b : (InUse(b)' <=> InUse(b)) /\ (InList(b)' <=> InList(b))
    BY <2>1 DEF InUse, InList, Clear
  <2>4. \A o \in Objects : clear'[o] = next => clear[o] = next \/ clear[Chunk] = next
    BY <1>0, <2>1
  <2>5. \A b \in Allocs : InUse(b) => clear'[b] = clear[b]
    BY <1>0, <2>1, <2>2
  <2> QED BY <1>0, <2>1, <2>3, <2>4, <2>5 DEF PollInv
<1>4. ASSUME NEW a \in Allocs, FillAllocation(a)  PROVE PollInv'
  <2>1. /\ pc[a] = "taken" /\ Range(transfers') = Range(transfers) \cup {Clear(a)}
        /\ next' = next /\ withdrawn' = withdrawn /\ work' = work
        /\ clear' = [o \in Objects |-> IF o = a \/ (o = Chunk /\ a \in Subs) THEN next ELSE clear[o]]
    BY <1>4, RangeOfAppend DEF FillAllocation, Execute, SeqInv
  <2>2. InList(a)' /\ ~InUse(a)
    BY <1>0, <2>1 DEF InList, InUse, Clear
  <2>3. \A b \in Allocs : InUse(b)' => InUse(b) /\ clear'[b] = clear[b]
    BY <1>0, <2>1, <2>2 DEF InUse
  <2> QED BY <1>1, <2>1, <2>2, <2>3
<1>5. ASSUME NEW r \in Textures, WriteSubresource(r)  PROVE PollInv'
  <2>1. /\ Range(transfers') = Range(transfers) \cup {Write(r)}
        /\ UNCHANGED <<next, withdrawn, work, clear>>
    BY <1>5, RangeOfAppend DEF WriteSubresource, Execute, SeqInv, objVars
  <2>2. \A b \in Allocs : InUse(b)' => InUse(b)
    BY <2>1 DEF InUse
  <2> QED BY <1>1, <2>1, <2>2
<1>6. ASSUME NEW a \in Allocs, ExecuteCommandLists(a)  PROVE PollInv'
  <2>1. /\ Kept /\ clear' = clear
        /\ \/ transfers = <<>> /\ work' = [work EXCEPT ![a] = "queued"]
           \/ work' = [work EXCEPT ![a] = "flushes"]
    BY <1>6 DEF ExecuteCommandLists, listVars
  <2>2. \A b : InList(b)' <=> InList(b)
    BY <2>1 DEF InList, Clear
  <2>3. transfers = <<>> => \A b : ~InList(b)
    BY DEF InList, Range
  <2>4. \A b \in Allocs : InUse(b)' => InUse(b) \/ (b = a /\ transfers = <<>>)
    BY <1>0, <2>1 DEF InUse
  <2> QED BY <1>0, <2>1, <2>2, <2>3, <2>4 DEF PollInv
<1>7. ASSUME NEW a \in Allocs, NEW q \in Queues, SubmitWork(a, q)  PROVE PollInv'
  <2>1. Kept /\ clear' = clear /\ work[a] = "queued" /\ work' = [work EXCEPT ![a] = "submitted"]
    BY <1>7 DEF SubmitWork, listVars
  <2>2. \A b \in Allocs : InUse(b)' => InUse(b)
    BY <1>0, <2>1 DEF InUse
  <2> QED BY <1>1, <2>1, <2>2
<1>8. ASSUME NEW q \in Queues, GpuWork(q)  PROVE PollInv'
  <2>1. Kept /\ clear' = clear /\ work' = [work EXCEPT ![Head(gpuQueue[q]).of] = "none"]
    BY <1>8 DEF GpuWork, listVars
  <2>2. \A b \in Allocs : InUse(b)' => InUse(b)
    BY <1>0, <2>1 DEF InUse
  <2> QED BY <1>1, <2>1, <2>2
<1>9. ASSUME NEW recorded \in BOOLEAN, FlushFails(recorded)  PROVE PollInv'
  <2>1. /\ Kept /\ clear' = clear
        /\ work' = [a \in Allocs |-> IF a = flusher /\ work[a] = "flushes" THEN "none" ELSE work[a]]
    BY <1>9 DEF FlushFails, Resume, listVars
  <2>2. \A b \in Allocs : InUse(b)' => InUse(b)
    BY <1>0, <2>1 DEF InUse
  <2> QED BY <1>1, <2>1, <2>2
<1>10. ASSUME FlushEnds  PROVE PollInv'
  <2>1. next' = next + 1 /\ clear' = clear /\ withdrawn' = FALSE
    BY <1>10 DEF FlushEnds, Resume
  <2>2. \A o \in Objects : clear'[o] # next'
    BY <1>0, <2>1
  <2>3. withdrawn' \in BOOLEAN
    BY <2>1
  <2>4. next' \in Nat \ {0}
    <3>1. next \in Nat
      BY <1>0
    <3>2. next' = next + 1
      BY <2>1
    <3> QED BY ONLY <3>1, <3>2
  <2>5. \A a \in Allocs : clear'[a] # next'
    BY <2>2
  <2> QED BY <2>2, <2>3, <2>4, <2>5 DEF PollInv
<1>11. ASSUME NEW o \in Objects, TakeFromList(o)  PROVE PollInv'
  BY <1>11 DEF TakeFromList, PollInv
<1>12. ASSUME NEW o \in Objects, CheckDone(o) \/ NotInList(o) \/ Waited(o) \/ ReturnRange(o)  PROVE PollInv'
  BY <1>2, <1>12 DEF CheckDone, NotInList, Waited, ReturnRange, listVars
<1>13. ASSUME NEW o \in Objects, ReturnMemory(o)  PROVE PollInv'
  <2>1. Kept /\ work' = work /\ clear' = [clear EXCEPT ![o] = 0] /\ pc[o] = "returns"
    BY <1>13 DEF ReturnMemory, listVars
  <2>2. \A b \in Allocs : InUse(b)' => InUse(b) /\ b # o
    BY <1>0, <2>1 DEF InUse
  <2> QED BY <1>0, <1>1, <2>1, <2>2
<1>14. ASSUME \/ Submit \/ GpuTransfers \/ Track \/ \E q \in Queues : AddWait(q)
              \/ (\E r \in Textures : ReleaseTexture(r)) \/ (\E a \in Allocs : FreeMemory(a)) \/ UNCHANGED vars
       PROVE  PollInv'
  BY <1>2, <1>14 DEF Submit, GpuTransfers, Track, TakeBatch, ReleaseTracked, AddWait, ReleaseTexture,
                     FreeMemory, vars, objVars, listVars
<1>15. CASE \E a \in Allocs : ObjectSteps(a)
  BY <1>3, <1>4, <1>6, <1>7, <1>14, <1>15 DEF ObjectSteps
<1>16. CASE Gpu \/ Flush \/ Track
  BY <1>8, <1>9, <1>10, <1>14, <1>16 DEF Gpu, Flush
<1>17. CASE \E o \in Objects : Free(o)
  BY <1>11, <1>12, <1>13, <1>17 DEF Free
<1> QED BY <1>5, <1>14, <1>15, <1>16, <1>17 DEF Next, ObjectSteps

-----------------------------------------------------------------------------
(* The theorems.                                                           *)

LEMMA InitHolds ==
  ASSUME Init
  PROVE  IInv
<1> USE ObjectNames
<1>0. /\ ChunkSize \in Nat \ {0} /\ Buffers \in Nat \ {0} /\ IsSeq(<<>>) /\ Range(<<>>) = {}
      /\ Objects = Allocs \cup {Chunk} /\ Cardinality({}) = 0 /\ DOMAIN <<>> = {} /\ Len(<<>>) = 0
  BY SizesAssumption, FS_EmptySet DEF IsSeq, Range, Objects
<1>1. SeqInv
  <2>1. TypeOK
    <3>1. offset \in [Subs -> 0 .. ChunkSize - 1] /\ buffer \in 0 .. Buffers - 1
      BY <1>0 DEF Init
    <3>2. /\ clear \in [Objects -> 0 .. next] /\ until \in [Objects -> 0 .. next] /\ waits \in [Queues -> 0 .. next]
          /\ next \in Nat /\ sem \in 0 .. next /\ pending \in Nat
      BY <1>0 DEF Init
    <3>3. mutex = "free" /\ flusher = Nobody /\ todo = {} /\ DOMAIN transfers = {} /\ withdrawn \in BOOLEAN
      BY <1>0 DEF Init
    <3>4. /\ pc \in [Objects -> {"none", "taken", "flushes", "live", "check", "search", "blocked", "returns"}]
          /\ work \in [Allocs -> {"none", "flushes", "queued", "submitted"}]
          /\ zeroed \in [Allocs -> BOOLEAN]
          /\ content \in [Memories -> {"old", "zero", "data", "spoilt"}]
          /\ mine \in [Textures -> BOOLEAN] /\ refs \in [Textures -> Nat]
      BY DEF Init
    <3> QED BY <3>1, <3>2, <3>3, <3>4 DEF TypeOK
  <2> QED BY <1>0, <2>1 DEF Init, SeqInv
<1>2. /\ \A o \in Objects : pc[o] = "none"
      /\ \A a \in Allocs : work[a] = "none" /\ ~zeroed[a] /\ ~Listed(a) /\ ~InList(a)
  BY <1>0 DEF Init, Listed, InList
<1>3. OwnerInv
  BY <1>2 DEF OwnerInv, WaitIsSubmitted
<1>4. ListInv
  <2>1. {i \in DOMAIN transfers : transfers[i].op = "clear"} = {} /\ pending = 0
    BY <1>0 DEF Init
  <2> QED BY <1>0, <2>1 DEF Init, ListInv, PendingIsListed
<1>5. GpuInv
  BY <1>0 DEF Init, GpuInv, Submitted
<1>6. DOMAIN onGpu = {} /\ \A q \in Queues : DOMAIN gpuQueue[q] = {}
  BY <1>0 DEF Init
<1>7. ClearInv /\ JobsInv /\ JobsWait /\ QueuesCover /\ CellsFresh
  BY <1>6 DEF ClearInv, JobsInv, JobsWait, QueuesCover, CellsFresh
<1>8. QueuedLater /\ FreshBefore /\ ClearedFirst
  BY <1>2 DEF QueuedLater, FreshBefore, ClearedFirst
<1>9. NothingIsSpoilt
  BY DEF Init, NothingIsSpoilt
<1>10. RangeInv
  BY <1>2 DEF RangeInv
<1>11. RefInv
  <2>1. /\ DOMAIN tracked = {} /\ DOMAIN batch = {} /\ \A r \in Textures : refs[r] = 0
    BY <1>0 DEF Init
  <2>2. \A r : Tracked(tracked, r) = {} /\ Tracked(batch, r) = {}
    BY <2>1 DEF Tracked
  <2>3. \A r \in Textures : refs[r] = Cardinality(Tracked(tracked, r)) + Cardinality(Tracked(batch, r))
    <3> TAKE r \in Textures
    <3>1. Cardinality(Tracked(tracked, r)) = 0 /\ Cardinality(Tracked(batch, r)) = 0 /\ refs[r] = 0
      BY <1>0, <2>1, <2>2
    <3> QED BY <3>1
  <2> QED BY <1>6, <2>1, <2>3 DEF RefInv
<1>12. PollInv
  <2>1. next = Buffers + 1 /\ withdrawn = FALSE /\ \A o \in Objects : clear[o] = 0
    BY DEF Init
  <2>2. next \in Nat \ {0} /\ \A a \in Allocs : ~InUse(a)
    BY <1>0, <1>2, <2>1 DEF InUse
  <2>3. withdrawn \in BOOLEAN /\ \A o \in Objects : clear[o] # next
    BY <2>1, <2>2
  <2> QED BY <2>2, <2>3 DEF PollInv
<1> QED BY <1>1, <1>3, <1>4, <1>5, <1>7, <1>8, <1>9, <1>10, <1>11, <1>12 DEF IInv, QueueInv, ContentInv

LEMMA IInvStep ==
  ASSUME IInv, [Next]_vars
  PROVE  IInv'
<1>0. /\ SeqInv /\ OwnerInv /\ ListInv /\ GpuInv /\ ClearInv /\ ContentInv /\ QueueInv
      /\ RangeInv /\ RefInv /\ PollInv
  BY DEF IInv
<1>1. GpuInv' /\ RangeInv' /\ RefInv' /\ ListInv' /\ PollInv'
  BY <1>0, GpuInvStep, RangeInvStep, RefInvStep, ListInvStep, PollInvStep
<1>2. OwnerInv' /\ ClearInv' /\ QueueInv' /\ ContentInv'
  BY <1>0, <1>1, OwnerInvStep, ClearInvStep, QueueInvStep, ContentInvStep
<1>3. SeqInv'
  BY <1>0, <1>1, SeqInvStep
<1> QED BY <1>1, <1>2, <1>3 DEF IInv

\* IInv is an invariant.
THEOREM Invariant == Spec => []IInv
<1>1. Init => IInv
  BY InitHolds
<1>2. IInv /\ [Next]_vars => IInv'
  BY IInvStep
<1> QED BY <1>1, <1>2, PTL DEF Spec

\* A clear never hits memory that was used, memory that must be zero is when it is
\* used (memory.c:486-552, command.c:23044), a wait for an allocation is for a value
\* that was submitted (memory.c:608-650), the pending bytes are those of the list
\* (memory.c:557-594), and what Release polls idle is unused, except memory that
\* inherited its value, after a clear was taken from the list (memory.c:589-601).
THEOREM ListReliable == Spec => []ListIsReliable
<1>1. IInv => ListIsReliable
  <2> SUFFICES ASSUME IInv
               PROVE  NothingIsSpoilt /\ WaitIsSubmitted /\ PendingIsListed /\ PolledIdleMeansUnused
    BY DEF ListIsReliable
  <2>1. NothingIsSpoilt /\ WaitIsSubmitted /\ PendingIsListed
    BY DEF IInv, ContentInv, OwnerInv, ListInv
  <2>2. ASSUME NEW a \in Allocs, PollsIdle(a), InUse(a)  PROVE ~zeroed[a] /\ withdrawn
    <3>1. withdrawn /\ pc[a] = "live" /\ clear[a] = next
      BY <2>2 DEF IInv, PollInv, PollsIdle
    <3>2. ~InList(a)
      BY <2>2 DEF IInv, OwnerInv, InUse
    <3> QED BY <3>1, <3>2 DEF IInv, OwnerInv
  <2> QED BY <2>1, <2>2 DEF PolledIdleMeansUnused
<1> QED BY <1>1, Invariant, PTL

LEMMA BuffersDiffer ==
  ASSUME SeqInv, GpuInv
  PROVE  CommandBuffersDiffer
<1>1. /\ DOMAIN onGpu = 1 .. Len(onGpu) /\ Len(onGpu) \in Nat
      /\ sem \in Nat /\ next \in Nat /\ Submitted \in Nat /\ Buffers \in Nat \ {0}
      /\ sem + Len(onGpu) = Submitted
  BY GpuFacts
<1>2. (Submitted = next \/ Submitted = next - 1) /\ Len(onGpu) <= Buffers /\ buffer \in 0 .. Buffers - 1
  BY DEF Submitted, GpuInv, SeqInv, TypeOK
<1>3. \A i \in DOMAIN onGpu : onGpu[i].buffer = BufferBefore(next - (sem + i))
  BY DEF GpuInv
<1>4. ASSUME NEW i \in DOMAIN onGpu, NEW j \in DOMAIN onGpu, i < j
      PROVE  onGpu[i].buffer # onGpu[j].buffer
  <2> DEFINE k == next - (sem + i)
             l == next - (sem + j)
  <2>1. k \in Int /\ l \in Int /\ l < k /\ 0 <= l /\ k - l < Buffers /\ k <= Buffers
    <3>1. i \in Nat /\ j \in Nat /\ 1 <= i /\ j <= Len(onGpu)
      BY <1>1, <1>4
    <3>2. next \in Int /\ sem \in Int /\ Buffers \in Int /\ i < j
      BY <1>1, <1>4
    <3>3. PICK n \in Nat : n = Len(onGpu)
      BY <1>1
    <3>4. (sem + n = next \/ sem + n = next - 1) /\ n <= Buffers /\ j <= n
      BY <1>1, <1>2, <3>1, <3>3
    <3>5. k \in Int /\ l \in Int /\ l < k
      BY <3>1, <3>2
    <3>6. 0 <= l /\ k <= Buffers
      BY <3>1, <3>2, <3>4
    <3>7. k - l < Buffers
      <4>1. k - l = j - i
        BY <3>1, <3>2
      <4>2. j - i < Buffers
        BY ONLY <3>1, <3>2, <3>4
      <4> QED BY <4>1, <4>2
    <3> QED BY <3>5, <3>6, <3>7
  <2>2. BufferBefore(k) # BufferBefore(l)
    <3> HIDE DEF k, l
    <3> QED BY <1>1, <1>2, <2>1 DEF BufferBefore
  <2> QED BY <1>3, <2>2
<1>5. \A i, j \in DOMAIN onGpu : i # j => i < j \/ j < i
  BY <1>1
<1> QED BY <1>4, <1>5 DEF CommandBuffersDiffer

LEMMA TexturesLive ==
  ASSUME IInv
  PROVE  WrittenTexturesLive
<1>0. SeqInv /\ RefInv
  BY DEF IInv
<1>1. ASSUME NEW i \in DOMAIN onGpu, NEW t \in Range(onGpu[i].ops), t.op = "write"  PROVE refs[t.of] > 0
  <2>1. PICK e \in Range(tracked) \cup Range(batch) : e.of = t.of
    BY <1>0, <1>1 DEF RefInv
  <2>2. e.of \in Textures
    BY <1>0 DEF RefInv, Range
  <2> DEFINE T == Tracked(tracked, e.of)
             B == Tracked(batch, e.of)
  <2>3. T # {} \/ B # {}
    BY DEF Range, Tracked
  <2>4. IsFiniteSet(T) /\ IsFiniteSet(B) /\ Cardinality(T) \in Nat /\ Cardinality(B) \in Nat
    <3>1. /\ DOMAIN tracked = 1 .. Len(tracked) /\ Len(tracked) \in Nat
          /\ DOMAIN batch = 1 .. Len(batch) /\ Len(batch) \in Nat
      BY <1>0, AppendElements DEF SeqInv
    <3>2. T \in SUBSET (1 .. Len(tracked)) /\ B \in SUBSET (1 .. Len(batch))
      BY <3>1 DEF Tracked
    <3> HIDE DEF T, B
    <3> QED BY <3>1, <3>2, IndicesAreFinite
  <2>5. Cardinality(T) # 0 \/ Cardinality(B) # 0
    <3> HIDE DEF T, B
    <3> QED BY <2>3, <2>4, FS_EmptySet
  <2>6. refs[e.of] = Cardinality(T) + Cardinality(B)
    BY <1>0, <2>2 DEF RefInv
  <2> HIDE DEF T, B
  <2> QED BY <2>1, <2>4, <2>5, <2>6
<1> QED BY <1>1 DEF WrittenTexturesLive

\* What the GPU touches exists: memory with a clear that is listed or not finished
\* is not given back (memory.c:604-651), a command buffer is not recorded while it
\* is in use (memory.c:454-484), and a texture with a write that was submitted is
\* kept (memory.c:34-100).
THEOREM GpuAccessSafe == Spec => []GpuAccessIsSafe
<1>1. ASSUME IInv  PROVE GpuAccessIsSafe
  <2>0. SeqInv /\ OwnerInv /\ GpuInv /\ ClearInv
    BY <1>1 DEF IInv
  <2>1. ASSUME NEW a \in Allocs  PROVE Listed(a) => pc[a] \in {"flushes", "live", "check", "search"}
    BY <2>0 DEF OwnerInv, Busy
  <2>2. ASSUME NEW a \in Allocs, Running(a)  PROVE pc[Memory(a)] # "none"
    BY <2>0, <2>2 DEF Running, ClearInv, Outlives, Busy
  <2>3. ClearsHaveMemory
    BY <2>1, <2>2 DEF ClearsHaveMemory
  <2> QED BY <1>1, <2>0, <2>3, BuffersDiffer, TexturesLive DEF GpuAccessIsSafe, SeqInv
<1> QED BY <1>1, Invariant, PTL

\* The suballocations that are held are apart and aligned, and the free ranges are the
\* ranges of the rest of the chunk; the allocator finds aligned cells if there are any, and
\* merges what comes back, for any chunk and any requirements (memory.c:1604, memory.c:1691).
THEOREM RangesKept == Spec => []RangesAreKept
<1>1. ASSUME IInv  PROVE RangesAreKept
  <2>0. SeqInv /\ OwnerInv /\ RangeInv /\ ChunkSize \in Nat \ {0}
        /\ \A a \in Subs : SizeOf[a] \in Nat \ {0}
    BY <1>1, SizesAssumption DEF IInv
  <2>1. AllocatorIsRight
    <3>1. 2 * ChunkSize \in Nat
      BY <2>0
    <3> QED BY <3>1, AllocatorOk DEF AllocatorIsRight
  <2>2. ASSUME NEW a \in Held  PROVE offset[a] % AlignmentOf[a] = 0 /\ MemoryOf(a) \subseteq 0 .. ChunkSize - 1
    <3>1. /\ a \in Subs /\ offset[a] \in Nat /\ offset[a] + SizeOf[a] <= ChunkSize
          /\ offset[a] % AlignmentOf[a] = 0
      BY <2>0 DEF RangeInv, Held
    <3>2. MemoryOf(a) = offset[a] .. offset[a] + SizeOf[a] - 1
      BY <3>1 DEF MemoryOf, Cells
    <3>3. MemoryOf(a) \subseteq 0 .. ChunkSize - 1
      BY <2>0, <3>1, <3>2
    <3> QED BY <3>1, <3>3
  <2>3. ASSUME NEW a \in Held, NEW b \in Held, a # b  PROVE MemoryOf(a) \cap MemoryOf(b) = {}
    BY <2>0, <2>3, ObjectNames, MemoriesApart DEF Held
  <2>4. ASSUME pc[Chunk] # "none"  PROVE free_ranges = FreeRanges(Rest)
    <3>1. Describes(free_ranges, Rest)
      BY <2>0, <2>4 DEF RangeInv
    <3> QED BY ONLY <3>1, DescriptionIsUnique
  <2>5. ChunkIsPartitioned
    BY <2>2, <2>3, <2>4 DEF ChunkIsPartitioned, Held, Rest
  <2> QED BY <2>1, <2>5 DEF RangesAreKept
<1> QED BY <1>1, Invariant, PTL
=============================================================================
