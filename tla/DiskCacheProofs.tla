---------------------------- MODULE DiskCacheProofs ----------------------------
(***************************************************************************)
(* Proofs about the on-disk cache, for any number of processes, sessions,  *)
(* crashes and builds, and for any pipelines: what a session that ended as *)
(* it should leaves behind is found again, and what is found is complete.  *)
(*                                                                         *)
(* While one process is alone, the invariant says for every stage of the   *)
(* merge which archives hold what was promised, and that in an archive the *)
(* SPIR-V comes before what links to it, or is in the archive it will be   *)
(* merged into.  Processes that run side by side leave no such order, and  *)
(* no promise either.                                                      *)
(***************************************************************************)
EXTENDS DiskCache, FiniteSetTheorems, SequenceTheorems, TLAPS

\* What an archive can hold.
Links == Pipelines \cup Code
Entries == Links \cup {Torn} \cup {Header(b) : b \in 1 .. MaxBuilds}

Stages == {"off", "promote", "map_write", "take_read", "open_merge", "drop_read", "replace_read",
           "parse", "append", "put_back", "replace", "delete_write", "delete_merge", "load", "loop"}

ProcType == [pc : Stages, closing : BOOLEAN, items : Seq(Pipelines), library : SUBSET Links,
             attempted : BOOLEAN, file : Files \cup {None}, written : Nat, buffer : Seq(Entries),
             write_map : Seq(Links), map : SUBSET Entries, created : SUBSET Pipelines,
             alone : BOOLEAN, setup : BOOLEAN]

\* A header is the first thing in a file, and nothing in a buffer is torn.
Headers == {Header(b) : b \in 1 .. build}
DataOk(s) == \A k \in DOMAIN s : s[k] \in Links \cup {Torn} \/ (k = 1 /\ s[k] \in Headers)
BufferOk(P) ==
  \A k \in DOMAIN P.buffer :
    P.buffer[k] \in Links \/ (k = 1 /\ P.written = 0 /\ P.buffer[k] \in Headers)

\* What a process has, wherever it is and whoever else runs.
ProcOk(P) ==
  /\ P.pc = "off" => P = Off
  /\ P.file # None => P.written <= Len(data[P.file])
  /\ P.file = None => P.written = 0 /\ P.buffer = <<>>
  /\ P.pc \in {"parse", "append"} => P.file # None
  /\ P.pc = "parse" => P.written = 0 /\ P.buffer = <<>>
  /\ P.pc \notin {"parse", "append", "loop"} => P.file = None
  /\ P.pc # "loop" => ~P.attempted /\ P.library = {} /\ ~P.setup
  /\ P.pc = "loop" /\ ~P.attempted => P.file = None
  /\ Range(P.items) \subseteq P.created /\ P.created \subseteq Range(P.items) \cup P.library
  /\ BufferOk(P)

PathOk ==
  /\ path \in [Names -> Files \cup {None}]
  /\ \A m, n \in Names : m # n /\ path[m] # None => path[m] # path[n]

FilesOk == data \in [Files -> Seq(Entries)] /\ \A f \in Files : DataOk(data[f])

ProcsOk == proc \in [Processes -> ProcType] /\ \A p \in Processes : ProcOk(proc[p])

TypeInv ==
  /\ PathOk /\ FilesOk /\ ProcsOk
  /\ build \in 1 .. MaxBuilds /\ promised \in SUBSET Pipelines /\ disturbed \in BOOLEAN

\* A process that is alone is the only one; only such processes leave promises,
\* and as long as no two processes ran at once there are no others.
AloneInv ==
  /\ \A p \in Processes : proc[p].alone => Running(p) /\ Alone(p)
  /\ promised # {} \/ ~disturbed => \A p \in Processes : Running(p) => proc[p].alone

\* What can be read from an archive.
Readable(s) == IF IsValid(s) THEN Whole(s) ELSE <<>>
Archive(n) == IF path[n] = None THEN <<>> ELSE Readable(data[path[n]])
Has(n) == Range(Archive(n))

\* What was written to a file and what stdio still has.
Stream(p) ==
  IF proc[p].file = None THEN <<>>
  ELSE [k \in 1 .. proc[p].written + Len(proc[p].buffer) |->
          IF k <= proc[p].written THEN data[proc[p].file][k] ELSE proc[p].buffer[k - proc[p].written]]

\* Whatever a pipeline of s links to is in base, or comes before it.
Closed(s, base) ==
  \A k \in DOMAIN s : s[k] \in Pipelines => CodeOf[s[k]] \subseteq base \cup {s[j] : j \in 1 .. k - 1}

\* What a process finds when it starts.
StartOk ==
  /\ promised \subseteq Has("read") \cup Has("write")
  /\ promised # {} => path["read"] = None \/ path["write"] = None \/ path["merge"] = None
  /\ ~disturbed => Closed(Archive("read"), lost) /\ Closed(Archive("write"), Has("read") \cup lost)

\* The write-only archive is merged.
WriteOk == path["write"] # None /\ IsValid(data[path["write"]])
Mapped(p) == WriteOk /\ proc[p].write_map = Tail(Archive("write"))

MapWriteOk ==
  /\ StartOk
  /\ promised # {} => path["write"] = None \/ (path["read"] # None /\ path["merge"] = None)

TakeReadOk(p) ==
  /\ StartOk /\ Mapped(p)
  /\ promised # {} => path["read"] # None /\ path["merge"] = None

\* The read-only archive has the name of the merge.
MergeOk ==
  /\ path["read"] = None /\ path["merge"] # None /\ WriteOk
  /\ ~disturbed => Closed(Archive("merge"), lost) /\ Closed(Archive("write"), Has("merge") \cup lost)

MergeValid == IsValid(data[path["merge"]])

OpenMergeOk(p) == MergeOk /\ Mapped(p) /\ promised \subseteq Has("merge") \cup Has("write")

ParseOk(p) == OpenMergeOk(p) /\ MergeValid /\ proc[p].file = path["merge"]

\* The file has what was written, up to its end or to what is torn.
OnFile(p) ==
  /\ \A k \in 1 .. proc[p].written : data[proc[p].file][k] # Torn
  /\ proc[p].written < Len(data[proc[p].file]) => data[proc[p].file][proc[p].written + 1] = Torn
  /\ Stream(p) # <<>> /\ Stream(p)[1] = Header(build)

AppendOk(p) ==
  /\ MergeOk /\ MergeValid /\ proc[p].file = path["merge"]
  /\ Range(proc[p].write_map) \subseteq Has("write")
  /\ Has("write") \subseteq proc[p].map \cup Range(proc[p].write_map)
  /\ OnFile(p) /\ proc[p].written >= 1 /\ proc[p].map = Range(Stream(p))
  /\ promised \subseteq proc[p].map \cup Range(proc[p].write_map)
  /\ ~disturbed => Closed(Stream(p), lost) /\ Closed(proc[p].write_map, proc[p].map \cup lost)

PutBackOk(p) ==
  MergeOk /\ MergeValid /\ proc[p].closing /\ promised \subseteq Has("merge") \cup Has("write")

ReplaceOk == MergeOk /\ MergeValid /\ promised \subseteq Has("merge")

DropReadOk(p) ==
  /\ path["read"] = None /\ path["merge"] # None /\ ~MergeValid /\ WriteOk
  /\ promised \subseteq Has("write") /\ (~disturbed => Closed(Archive("write"), lost))

ReplaceReadOk ==
  /\ path["read"] = None /\ path["merge"] = None /\ WriteOk
  /\ promised \subseteq Has("write") /\ (~disturbed => Closed(Archive("write"), lost))

DeleteWriteOk ==
  /\ StartOk /\ promised \subseteq Has("read")
  /\ promised # {} => path["write"] = None \/ path["merge"] = None

DeleteMergeOk == StartOk /\ path["write"] = None

LoadOk(p) == StartOk /\ path["merge"] = None /\ (path["write"] = None \/ proc[p].closing)

\* The library is what is in the archives and in the buffer.
LoopOk(p) ==
  /\ StartOk /\ path["merge"] = None
  /\ proc[p].file # None => /\ proc[p].file = path["write"] /\ OnFile(p)
                            /\ ~disturbed => Closed(Stream(p), Has("read") \cup lost)
  /\ proc[p].setup => /\ promised \subseteq proc[p].library
                      /\ IF proc[p].attempted THEN proc[p].file # None ELSE path["write"] = None
  /\ ~proc[p].attempted \/ proc[p].file # None =>
       proc[p].library \subseteq Has("read") \cup Range(Stream(p))
  /\ ~disturbed => \A x \in proc[p].library \cap Pipelines : CodeOf[x] \subseteq proc[p].library \cup lost

\* What holds of the archives while a process is alone.
StageOk(p) ==
  /\ At(p, "promote") => StartOk
  /\ At(p, "map_write") => MapWriteOk
  /\ At(p, "take_read") => TakeReadOk(p)
  /\ At(p, "open_merge") => OpenMergeOk(p)
  /\ At(p, "drop_read") => DropReadOk(p)
  /\ At(p, "replace_read") => ReplaceReadOk
  /\ At(p, "parse") => ParseOk(p)
  /\ At(p, "append") => AppendOk(p)
  /\ At(p, "put_back") => PutBackOk(p)
  /\ At(p, "replace") => ReplaceOk
  /\ At(p, "delete_write") => DeleteWriteOk
  /\ At(p, "delete_merge") => DeleteMergeOk
  /\ At(p, "load") => LoadOk(p)
  /\ At(p, "loop") => LoopOk(p)

StageInv ==
  /\ (\A p \in Processes : ~Running(p)) => StartOk
  /\ \A p \in Processes : proc[p].alone => StageOk(p)

\* The inductive invariant.
IInv == TypeInv /\ AloneInv /\ StageInv

-----------------------------------------------------------------------------
(* Sequences.                                                              *)

LEMMA SeqFacts ==
  ASSUME NEW S, NEW s \in Seq(S)
  PROVE  /\ Len(s) \in Nat /\ DOMAIN s = 1 .. Len(s) /\ \A k \in DOMAIN s : s[k] \in S
         /\ s # <<>> <=> Len(s) >= 1
         /\ Range(s) = {s[k] : k \in 1 .. Len(s)} /\ Range(s) \subseteq S
<1>1. s # <<>> <=> Len(s) >= 1
  BY EmptySeq, LenProperties
<1> QED BY <1>1 DEF Range

\* The first n elements of a sequence.
LEMMA PrefixFacts ==
  ASSUME NEW S, NEW s \in Seq(S), NEW n \in 0 .. Len(s)
  PROVE  /\ SubSeq(s, 1, n) \in Seq(S) /\ Len(SubSeq(s, 1, n)) = n /\ DOMAIN SubSeq(s, 1, n) = 1 .. n
         /\ \A k \in 1 .. n : SubSeq(s, 1, n)[k] = s[k]
<1>1. n \in Int /\ 1 \in Int /\ \A i \in 1 .. n : s[i] \in S
  BY SeqFacts
<1>2. /\ SubSeq(s, 1, n) \in Seq(S)
      /\ Len(SubSeq(s, 1, n)) = IF 1 <= n THEN n - 1 + 1 ELSE 0
      /\ \A i \in 1 .. n - 1 + 1 : SubSeq(s, 1, n)[i] = s[1 + i - 1]
  BY ONLY <1>1, SubSeqProperties
<1>3. Len(SubSeq(s, 1, n)) = n
  BY <1>1, <1>2
<1>4. \A i \in 1 .. n : SubSeq(s, 1, n)[i] = s[i]
  <2> TAKE i \in 1 .. n
  <2>1. i \in 1 .. n - 1 + 1 /\ 1 + i - 1 = i
    BY <1>1
  <2> QED BY <1>2, <2>1
<1>5. DOMAIN SubSeq(s, 1, n) = 1 .. n
  BY <1>2, <1>3, SeqFacts
<1> QED BY <1>2, <1>3, <1>4, <1>5

\* What is left of it.
LEMMA SuffixFacts ==
  ASSUME NEW S, NEW s \in Seq(S), NEW n \in 0 .. Len(s)
  PROVE  /\ SubSeq(s, n + 1, Len(s)) \in Seq(S) /\ Len(SubSeq(s, n + 1, Len(s))) = Len(s) - n
         /\ \A k \in 1 .. Len(s) - n : SubSeq(s, n + 1, Len(s))[k] = s[n + k]
<1>1. n + 1 \in Int /\ Len(s) \in Int /\ n \in Int /\ \A i \in n + 1 .. Len(s) : s[i] \in S
  BY SeqFacts
<1> DEFINE m == n + 1
<1>2. m \in Int /\ \A i \in m .. Len(s) : s[i] \in S
  BY <1>1
<1> HIDE DEF m
<1>3. /\ SubSeq(s, m, Len(s)) \in Seq(S)
      /\ Len(SubSeq(s, m, Len(s))) = IF m <= Len(s) THEN Len(s) - m + 1 ELSE 0
      /\ \A i \in 1 .. Len(s) - m + 1 : SubSeq(s, m, Len(s))[i] = s[m + i - 1]
  BY ONLY <1>1, <1>2, SubSeqProperties
<1>4. Len(SubSeq(s, m, Len(s))) = Len(s) - n
  BY <1>1, <1>3 DEF m
<1>5. \A k \in 1 .. Len(s) - n : SubSeq(s, m, Len(s))[k] = s[n + k]
  <2> TAKE k \in 1 .. Len(s) - n
  <2>1. k \in 1 .. Len(s) - m + 1 /\ m + k - 1 = n + k
    BY <1>1 DEF m
  <2> QED BY <1>3, <2>1
<1> QED BY <1>3, <1>4, <1>5 DEF m

LEMMA ConcatFacts ==
  ASSUME NEW S, NEW s \in Seq(S), NEW t \in Seq(S)
  PROVE  /\ s \o t \in Seq(S) /\ Len(s \o t) = Len(s) + Len(t)
         /\ \A k \in 1 .. Len(s) : (s \o t)[k] = s[k]
         /\ \A k \in 1 .. Len(t) : (s \o t)[Len(s) + k] = t[k]
         /\ Range(s \o t) = Range(s) \cup Range(t)
<1>1. Len(s) \in Nat /\ Len(t) \in Nat
  BY SeqFacts
<1>2. /\ s \o t \in Seq(S) /\ Len(s \o t) = Len(s) + Len(t)
      /\ \A i \in 1 .. Len(s) + Len(t) : (s \o t)[i] = IF i <= Len(s) THEN s[i] ELSE t[i - Len(s)]
  BY ConcatProperties
<1>3. \A k \in 1 .. Len(s) : (s \o t)[k] = s[k]
  BY <1>1, <1>2
<1>4. \A k \in 1 .. Len(t) : (s \o t)[Len(s) + k] = t[k]
  <2> TAKE k \in 1 .. Len(t)
  <2>1. Len(s) + k \in 1 .. Len(s) + Len(t) /\ ~(Len(s) + k <= Len(s)) /\ (Len(s) + k) - Len(s) = k
    BY <1>1
  <2> QED BY <1>2, <2>1
<1> QED BY <1>2, <1>3, <1>4, RangeConcatenation

LEMMA AppendFacts ==
  ASSUME NEW S, NEW s \in Seq(S), NEW e \in S
  PROVE  /\ Append(s, e) \in Seq(S) /\ Len(Append(s, e)) = Len(s) + 1
         /\ \A k \in 1 .. Len(s) : Append(s, e)[k] = s[k]
         /\ Append(s, e)[Len(s) + 1] = e
  BY AppendProperties

LEMMA RangeAppend ==
  ASSUME NEW S, NEW s \in Seq(S), NEW e \in S
  PROVE  Range(Append(s, e)) = Range(s) \cup {e}
<1>1. <<e>> \in Seq(S) /\ DOMAIN <<e>> = {1} /\ <<e>>[1] = e
  OBVIOUS
<1>2. Range(<<e>>) = {e}
  BY <1>1 DEF Range
<1>3. Append(s, e) = s \o <<e>>
  BY AppendIsConcat
<1>4. Range(s \o <<e>>) = Range(s) \cup Range(<<e>>)
  BY <1>1, ConcatFacts
<1> QED BY <1>2, <1>3, <1>4

LEMMA TailFacts ==
  ASSUME NEW S, NEW s \in Seq(S), s # <<>>
  PROVE  /\ Head(s) = s[1] /\ Tail(s) \in Seq(S) /\ Len(Tail(s)) = Len(s) - 1
         /\ \A k \in 1 .. Len(s) - 1 : Tail(s)[k] = s[k + 1]
         /\ Range(s) = {Head(s)} \cup Range(Tail(s))
<1>1. /\ Tail(s) \in Seq(S) /\ Len(Tail(s)) = Len(s) - 1
      /\ \A k \in 1 .. Len(Tail(s)) : Tail(s)[k] = s[k + 1]
  BY HeadTailProperties
<1>2. Len(s) \in Nat /\ Len(s) >= 1 /\ Head(s) = s[1]
  BY SeqFacts
<1>3. Range(s) = {s[k] : k \in 1 .. Len(s)} /\ Range(Tail(s)) = {Tail(s)[k] : k \in 1 .. Len(s) - 1}
  BY <1>1, SeqFacts
<1>4. ASSUME NEW e \in Range(s)  PROVE e = Head(s) \/ e \in Range(Tail(s))
  <2>1. PICK k \in 1 .. Len(s) : e = s[k]
    BY <1>3
  <2>2. CASE k = 1
    BY <1>2, <2>1, <2>2
  <2>3. CASE k # 1
    <3>1. PICK i \in Int : i = k - 1
      BY <1>2
    <3>2. i \in 1 .. Len(s) - 1 /\ k = i + 1
      BY <1>2, <2>3, <3>1
    <3> QED BY <1>1, <1>3, <2>1, <3>2
  <2> QED BY <2>2, <2>3
<1>5. Head(s) \in Range(s)
  BY <1>2, <1>3
<1>6. ASSUME NEW e \in Range(Tail(s))  PROVE e \in Range(s)
  <2>1. PICK k \in 1 .. Len(s) - 1 : e = Tail(s)[k]
    BY <1>3
  <2>2. k + 1 \in 1 .. Len(s) /\ e = s[k + 1]
    BY <1>1, <1>2, <2>1
  <2> QED BY <1>3, <2>2
<1> QED BY <1>1, <1>2, <1>4, <1>5, <1>6

\* A bounded set of numbers has a least element.
LEMMA MinOfBounded ==
  ASSUME NEW N \in Nat, NEW S \in SUBSET (0 .. N), S # {}
  PROVE  Min(S) \in S /\ \A y \in S : Min(S) <= y
<1> DEFINE T == {0 .. x : x \in S}
<1>1. \A x \in S : x \in 0 .. N /\ 0 .. x \in SUBSET Nat /\ IsFiniteSet(0 .. x)
  <2> TAKE x \in S
  <2>1. x \in 0 .. N
    OBVIOUS
  <2>2. IsFiniteSet(0 .. x)
    BY <2>1, FS_Interval
  <2> QED BY <2>1, <2>2
<1>2. T \subseteq FiniteSubsetsOf(Nat)
  BY <1>1, Zenon DEF FiniteSubsetsOf
<1>3. T # {}
  OBVIOUS
<1> HIDE DEF T
<1>4. PICK t \in T : \A u \in T : ~(<<u, t>> \in StrictSubsetOrdering(Nat))
  BY <1>2, <1>3, FS_StrictSubsetOrderingWellFounded, WFMin, Zenon
<1>5. PICK x \in S : t = 0 .. x
  BY <1>4, Zenon DEF T
<1>6. ASSUME NEW y \in S  PROVE x <= y
  <2> SUFFICES ASSUME ~(x <= y) PROVE FALSE
    OBVIOUS
  <2>1. y < x /\ x \in 0 .. N /\ y \in 0 .. N
    BY <1>1
  <2>2. 0 .. y \subseteq 0 .. x /\ x \in 0 .. x /\ x \notin 0 .. y
    BY <2>1
  <2>3. 0 .. y \in SUBSET Nat /\ 0 .. x \in SUBSET Nat
    BY <1>1, Zenon
  <2>4. <<0 .. y, 0 .. x>> \in StrictSubsetOrdering(Nat)
    BY <2>2, <2>3 DEF StrictSubsetOrdering
  <2>5. 0 .. y \in T
    BY Zenon DEF T
  <2> QED BY <1>4, <1>5, <2>4, <2>5, Zenon
<1>7. \E z \in S : \A y \in S : z <= y
  BY <1>6
<1> QED BY <1>7 DEF Min

\* What can be read of a file ends where the first torn entry is.
LEMMA WholeFacts ==
  ASSUME NEW S, NEW s \in Seq(S)
  PROVE  \E m \in 0 .. Len(s) :
           /\ Whole(s) = SubSeq(s, 1, m)
           /\ \A k \in 1 .. m : s[k] # Torn
           /\ m < Len(s) => s[m + 1] = Torn
<1> DEFINE K == {k \in DOMAIN s : s[k] = Torn} \cup {Len(s) + 1}
<1>1. Len(s) \in Nat /\ DOMAIN s = 1 .. Len(s)
  BY SeqFacts
<1>2. PICK N \in Nat : N = Len(s) + 1
  BY <1>1
<1>3. K \in SUBSET (0 .. N) /\ K # {} /\ Len(s) + 1 \in K
  BY <1>1, <1>2
<1> DEFINE x == Min(K)
<1>4. x \in K /\ \A y \in K : x <= y
  BY <1>3, MinOfBounded
<1>5. Whole(s) = SubSeq(s, 1, x - 1)
  BY DEF Whole
<1>6. \A k \in DOMAIN s : s[k] = Torn => k \in K
  OBVIOUS
<1>7. x # Len(s) + 1 => s[x] = Torn /\ x \in DOMAIN s
  BY <1>4
<1> HIDE DEF K, x
<1>8. x \in 1 .. Len(s) + 1
  BY <1>1, <1>4, <1>7
<1>9. PICK m \in Int : m = x - 1
  BY <1>8
<1>10. m \in 0 .. Len(s) /\ x = m + 1
  BY <1>1, <1>8, <1>9
<1>11. \A k \in 1 .. m : s[k] # Torn
  <2> SUFFICES ASSUME NEW k \in 1 .. m, s[k] = Torn  PROVE FALSE
    OBVIOUS
  <2>1. k \in DOMAIN s /\ k < x
    BY <1>1, <1>10
  <2>2. x <= k
    BY <1>4, <1>6, <2>1
  <2> QED BY <1>8, <2>1, <2>2
<1>12. m < Len(s) => s[m + 1] = Torn
  BY <1>1, <1>7, <1>10
<1> QED BY <1>5, <1>9, <1>10, <1>11, <1>12

\* The first n entries, if they are whole and nothing can be read after them.
LEMMA WholeIs ==
  ASSUME NEW S, NEW s \in Seq(S), NEW n \in 0 .. Len(s),
         \A k \in 1 .. n : s[k] # Torn, n < Len(s) => s[n + 1] = Torn
  PROVE  Whole(s) = SubSeq(s, 1, n)
<1>1. PICK m \in 0 .. Len(s) : /\ Whole(s) = SubSeq(s, 1, m)
                               /\ \A k \in 1 .. m : s[k] # Torn
                               /\ m < Len(s) => s[m + 1] = Torn
  BY WholeFacts
<1>2. Len(s) \in Nat
  BY SeqFacts
<1>3. ~(m < n)
  <2> SUFFICES ASSUME m < n  PROVE FALSE
    OBVIOUS
  <2>1. m < Len(s) /\ m + 1 \in 1 .. n
    BY <1>2
  <2> QED BY <1>1, <2>1
<1>4. ~(n < m)
  <2> SUFFICES ASSUME n < m  PROVE FALSE
    OBVIOUS
  <2>1. n < Len(s) /\ n + 1 \in 1 .. m
    BY <1>2
  <2> QED BY <1>1, <2>1
<1>5. m = n
  BY <1>2, <1>3, <1>4
<1> QED BY <1>1, <1>5

\* The new sequence that is written at an offset.
LEMMA FileWithFacts ==
  ASSUME NEW old \in Seq(Entries), NEW w \in 0 .. Len(old), NEW s \in Seq(Entries), s # <<>>
  PROVE  LET F == FileWith(old, w, s) IN
         /\ F \in Seq(Entries) /\ Len(F) >= Len(old) /\ Len(F) >= w + Len(s)
         /\ \A k \in 1 .. w : F[k] = old[k]
         /\ \A k \in 1 .. Len(s) : F[w + k] = s[k]
         /\ \A k \in w + Len(s) + 1 .. Len(F) : F[k] = Torn
<1> DEFINE n == w + Len(s)
           L == IF Len(old) > n THEN Len(old) ELSE n
           G(k) == IF k <= w THEN old[k] ELSE IF k <= n THEN s[k - w] ELSE Torn
           F == [k \in 1 .. L |-> G(k)]
<1>1. Len(old) \in Nat /\ Len(s) \in Nat /\ Len(s) >= 1
  BY SeqFacts
<1>2. n \in Nat /\ L \in Nat /\ L >= Len(old) /\ L >= n
  BY <1>1
<1>3. \A k \in 1 .. L : G(k) \in Entries
  <2> TAKE k \in 1 .. L
  <2>1. CASE k <= w
    <3>1. k \in DOMAIN old
      BY <1>1, <2>1, SeqFacts
    <3> QED BY <2>1, <3>1, SeqFacts
  <2>2. CASE ~(k <= w) /\ k <= n
    <3>1. k - w \in DOMAIN s
      BY <1>1, <2>2, SeqFacts
    <3>2. s[k - w] \in Entries
      BY <3>1, SeqFacts
    <3> QED BY <2>2, <3>2
  <2>3. CASE ~(k <= w) /\ ~(k <= n)
    BY <2>3 DEF Entries
  <2> QED BY <2>1, <2>2, <2>3
<1>4. FileWith(old, w, s) = F
  BY DEF FileWith
<1> HIDE DEF G
<1>5. F \in Seq(Entries) /\ Len(F) = L
  <2>1. F \in [1 .. L -> Entries]
    BY <1>3
  <2> QED BY <1>2, <2>1
<1>6. \A k \in 1 .. L : F[k] = G(k)
  OBVIOUS
<1> HIDE DEF F
<1>7. \A k \in 1 .. w : F[k] = old[k]
  <2> TAKE k \in 1 .. w
  <2>1. k \in 1 .. L /\ k <= w
    BY <1>1, <1>2
  <2> QED BY <1>6, <2>1 DEF G
<1>8. \A k \in 1 .. Len(s) : F[w + k] = s[k]
  <2> TAKE k \in 1 .. Len(s)
  <2>1. w + k \in 1 .. L /\ ~(w + k <= w) /\ w + k <= n /\ (w + k) - w = k
    BY <1>1, <1>2
  <2>2. G(w + k) = s[(w + k) - w]
    BY <2>1 DEF G
  <2>3. F[w + k] = G(w + k)
    BY <1>6, <2>1
  <2> QED BY <2>1, <2>2, <2>3
<1>9. \A k \in w + Len(s) + 1 .. L : F[k] = Torn
  <2> TAKE k \in w + Len(s) + 1 .. L
  <2>1. k \in 1 .. L /\ ~(k <= w) /\ ~(k <= n)
    BY <1>1, <1>2
  <2> QED BY <1>6, <2>1 DEF G
<1>10. Len(F) >= Len(old) /\ Len(F) >= w + Len(s)
  BY <1>1, <1>2, <1>5
<1>11. \A k \in w + Len(s) + 1 .. Len(F) : F[k] = Torn
  BY <1>5, <1>9
<1> HIDE DEF L, n
<1> QED BY <1>4, <1>5, <1>7, <1>8, <1>10, <1>11

-----------------------------------------------------------------------------
(* Entries.                                                                *)

\* A header is not torn, and neither is a link.
LEMMA Kinds ==
  /\ None \notin Files /\ Torn \notin Links
  /\ \A b \in 1 .. MaxBuilds : Header(b) \notin Links /\ Header(b) # Torn
  /\ \A x \in Pipelines : CodeOf[x] \subseteq Code /\ x \notin Code /\ IsFiniteSet(CodeOf[x])
<1>1. None \notin Files /\ Torn \notin Links /\ \A b \in 1 .. MaxBuilds : Header(b) \notin Links
  BY NamesAssumption DEF Links
<1>2. \A b \in 1 .. MaxBuilds : Header(b) # Torn
  BY DEF Header, Torn
<1>3. ASSUME NEW x \in Pipelines
      PROVE  CodeOf[x] \subseteq Code /\ x \notin Code /\ IsFiniteSet(CodeOf[x])
  <2>1. CodeOf[x] \in SUBSET Code /\ IsFiniteSet(Code) /\ x \notin Code
    BY CacheAssumption
  <2> QED BY <2>1, FS_Subset
<1> QED BY <1>1, <1>2, <1>3

LEMMA ClosedEmpty == ASSUME NEW base  PROVE Closed(<<>>, base)
  BY DEF Closed

LEMMA ClosedMore ==
  ASSUME NEW s, NEW base, NEW more, Closed(s, base), base \subseteq more
  PROVE  Closed(s, more)
  BY DEF Closed

\* Only the SPIR-V of what comes before matters.
LEMMA ClosedCode ==
  ASSUME NEW s, NEW base, NEW more, Closed(s, base), Code \cap base \subseteq more
  PROVE  Closed(s, more)
<1>1. ASSUME NEW k \in DOMAIN s, s[k] \in Pipelines
      PROVE  CodeOf[s[k]] \subseteq more \cup {s[j] : j \in 1 .. k - 1}
  <2>1. CodeOf[s[k]] \subseteq Code
    BY <1>1, Kinds
  <2>2. CodeOf[s[k]] \subseteq base \cup {s[j] : j \in 1 .. k - 1}
    BY <1>1 DEF Closed
  <2> QED BY <2>1, <2>2
<1> QED BY <1>1 DEF Closed

\* What comes first stays closed.
LEMMA ClosedPrefix ==
  ASSUME NEW S, NEW s \in Seq(S), NEW base, NEW n \in 0 .. Len(s), Closed(s, base)
  PROVE  Closed(SubSeq(s, 1, n), base)
<1> DEFINE t == SubSeq(s, 1, n)
<1>1. Len(t) = n /\ DOMAIN t = 1 .. n /\ \A k \in 1 .. n : t[k] = s[k]
  BY PrefixFacts
<1>2. Len(s) \in Nat /\ DOMAIN s = 1 .. Len(s)
  BY SeqFacts
<1> HIDE DEF t
<1>3. ASSUME NEW k \in DOMAIN t, t[k] \in Pipelines
      PROVE  CodeOf[t[k]] \subseteq base \cup {t[j] : j \in 1 .. k - 1}
  <2>1. k \in DOMAIN s /\ k \in 1 .. n /\ t[k] = s[k]
    BY <1>1, <1>2, <1>3
  <2>2. CodeOf[s[k]] \subseteq base \cup {s[j] : j \in 1 .. k - 1}
    BY <1>3, <2>1 DEF Closed
  <2>3. \A j \in 1 .. k - 1 : s[j] = t[j]
    BY <1>1, <2>1
  <2>4. {s[j] : j \in 1 .. k - 1} \subseteq {t[j] : j \in 1 .. k - 1}
    BY <2>3
  <2> QED BY <2>1, <2>2, <2>4
<1> QED BY <1>3 DEF Closed, t

\* The first entry, once it is in the base, is not needed any more.
LEMMA ClosedTail ==
  ASSUME NEW S, NEW s \in Seq(S), NEW base, s # <<>>, Closed(s, base)
  PROVE  /\ Closed(Tail(s), base \cup {Head(s)})
         /\ Head(s) \in Pipelines => CodeOf[Head(s)] \subseteq base
<1>1. /\ Head(s) = s[1] /\ Tail(s) \in Seq(S) /\ Len(Tail(s)) = Len(s) - 1
      /\ \A k \in 1 .. Len(s) - 1 : Tail(s)[k] = s[k + 1]
  BY TailFacts
<1>2. Len(s) \in Nat /\ Len(s) >= 1 /\ DOMAIN s = 1 .. Len(s)
  BY SeqFacts
<1>3. DOMAIN Tail(s) = 1 .. Len(s) - 1
  BY <1>1, SeqFacts
<1> DEFINE t == Tail(s)
<1>4. /\ \A k \in 1 .. Len(s) - 1 : t[k] = s[k + 1]
      /\ DOMAIN t = 1 .. Len(s) - 1
  BY <1>1, <1>3
<1> HIDE DEF t
<1>5. ASSUME NEW k \in DOMAIN t, t[k] \in Pipelines
      PROVE  CodeOf[t[k]] \subseteq (base \cup {Head(s)}) \cup {t[j] : j \in 1 .. k - 1}
  <2>1. k + 1 \in DOMAIN s /\ t[k] = s[k + 1] /\ (k + 1) - 1 = k /\ k \in 1 .. Len(s) - 1
    BY <1>2, <1>4
  <2>2. CodeOf[s[k + 1]] \subseteq base \cup {s[j] : j \in 1 .. k}
    BY <1>5, <2>1 DEF Closed
  <2>3. ASSUME NEW j \in 1 .. k  PROVE s[j] \in {Head(s)} \cup {t[i] : i \in 1 .. k - 1}
    <3>1. CASE j = 1
      BY <1>1, <3>1
    <3>2. CASE j # 1
      <4>1. PICK i \in Int : i = j - 1
        OBVIOUS
      <4>2. i \in 1 .. k - 1 /\ i \in 1 .. Len(s) - 1 /\ i + 1 = j
        BY <1>2, <2>1, <3>2, <4>1
      <4>3. t[i] = s[j]
        BY <1>4, <4>2
      <4> QED BY <4>2, <4>3
    <3> QED BY <3>1, <3>2
  <2> QED BY <2>1, <2>2, <2>3
<1>6. Head(s) \in Pipelines => CodeOf[Head(s)] \subseteq base
  <2> SUFFICES ASSUME Head(s) \in Pipelines  PROVE CodeOf[Head(s)] \subseteq base
    OBVIOUS
  <2>1. 1 \in DOMAIN s
    BY <1>2
  <2>2. CodeOf[s[1]] \subseteq base \cup {s[j] : j \in 1 .. 1 - 1}
    BY <1>1, <2>1 DEF Closed
  <2>3. {s[j] : j \in 1 .. 1 - 1} = {}
    OBVIOUS
  <2> QED BY <1>1, <2>2, <2>3
<1> QED BY <1>5, <1>6 DEF Closed, t

\* A sequence goes on with one that finds what it needs in it.
LEMMA ClosedConcat ==
  ASSUME NEW S, NEW s \in Seq(S), NEW t \in Seq(S), NEW base,
         Closed(s, base), Closed(t, base \cup Range(s))
  PROVE  Closed(s \o t, base)
<1> DEFINE u == s \o t
<1>1. /\ u \in Seq(S) /\ Len(u) = Len(s) + Len(t)
      /\ \A k \in 1 .. Len(s) : u[k] = s[k]
      /\ \A k \in 1 .. Len(t) : u[Len(s) + k] = t[k]
  BY ConcatFacts
<1>2. /\ Len(s) \in Nat /\ DOMAIN s = 1 .. Len(s)
      /\ Len(t) \in Nat /\ DOMAIN t = 1 .. Len(t)
      /\ Range(s) = {s[j] : j \in 1 .. Len(s)}
  BY SeqFacts
<1> HIDE DEF u
<1>3. DOMAIN u = 1 .. Len(s) + Len(t)
  BY <1>1, SeqFacts
<1>4. ASSUME NEW k \in DOMAIN u, u[k] \in Pipelines
      PROVE  CodeOf[u[k]] \subseteq base \cup {u[j] : j \in 1 .. k - 1}
  <2>1. CASE k <= Len(s)
    <3>1. k \in 1 .. Len(s) /\ u[k] = s[k]
      BY <1>1, <1>2, <1>3, <2>1
    <3>2. CodeOf[s[k]] \subseteq base \cup {s[j] : j \in 1 .. k - 1}
      BY <1>2, <1>4, <3>1 DEF Closed
    <3>3. \A j \in 1 .. k - 1 : j \in 1 .. Len(s)
      BY <1>2, <3>1
    <3>4. \A j \in 1 .. k - 1 : s[j] = u[j]
      BY <1>1, <3>3
    <3> QED BY <3>1, <3>2, <3>4
  <2>2. CASE ~(k <= Len(s))
    <3>1. PICK i \in Int : i = k - Len(s)
      BY <1>2, <1>3
    <3>2. i \in 1 .. Len(t) /\ k = Len(s) + i
      BY <1>2, <1>3, <2>2, <3>1
    <3>3. u[k] = t[i]
      BY <1>1, <3>2
    <3>4. CodeOf[t[i]] \subseteq (base \cup Range(s)) \cup {t[j] : j \in 1 .. i - 1}
      BY <1>2, <1>4, <3>2, <3>3 DEF Closed
    <3>5. ASSUME NEW j \in 1 .. Len(s)  PROVE s[j] \in {u[l] : l \in 1 .. k - 1}
      <4>1. j \in 1 .. k - 1 /\ u[j] = s[j]
        BY <1>1, <1>2, <3>2
      <4> QED BY <4>1
    <3>6. ASSUME NEW j \in 1 .. i - 1  PROVE t[j] \in {u[l] : l \in 1 .. k - 1}
      <4>1. j \in 1 .. Len(t) /\ Len(s) + j \in 1 .. k - 1
        BY <1>2, <3>2
      <4>2. u[Len(s) + j] = t[j]
        BY <1>1, <4>1
      <4> QED BY <4>1, <4>2
    <3>7. Range(s) \subseteq {u[l] : l \in 1 .. k - 1}
      BY <1>2, <3>5
    <3>8. {t[j] : j \in 1 .. i - 1} \subseteq {u[l] : l \in 1 .. k - 1}
      BY <3>6
    <3> QED BY <3>3, <3>4, <3>7, <3>8
  <2> QED BY <1>2, <1>3, <2>1, <2>2
<1> QED BY <1>4 DEF Closed, u

\* In a closed sequence whatever is needed is there.
LEMMA ClosedFound ==
  ASSUME NEW S, NEW s \in Seq(S), NEW base, Closed(s, base), NEW x \in Range(s) \cap Pipelines
  PROVE  CodeOf[x] \subseteq base \cup Range(s)
<1>1. Len(s) \in Nat /\ DOMAIN s = 1 .. Len(s) /\ Range(s) = {s[j] : j \in 1 .. Len(s)}
  BY SeqFacts
<1>2. PICK k \in 1 .. Len(s) : x = s[k]
  BY <1>1
<1>3. CodeOf[x] \subseteq base \cup {s[j] : j \in 1 .. k - 1}
  BY <1>1, <1>2 DEF Closed
<1>4. \A j \in 1 .. k - 1 : j \in 1 .. Len(s)
  BY <1>1, <1>2
<1> QED BY <1>1, <1>3, <1>4

LEMMA ClosedNoPipelines ==
  ASSUME NEW S, NEW s \in Seq(S), NEW base, Range(s) \cap Pipelines = {}
  PROVE  Closed(s, base)
  BY SeqFacts DEF Closed

LEMMA SingleFacts ==
  ASSUME NEW S, NEW e \in S
  PROVE  /\ <<e>> \in Seq(S) /\ Len(<<e>>) = 1 /\ <<e>>[1] = e /\ Range(<<e>>) = {e}
<1>1. <<e>> \in Seq(S) /\ Len(<<e>>) = 1 /\ <<e>>[1] = e
  OBVIOUS
<1>2. Range(<<e>>) = {<<e>>[k] : k \in 1 .. 1}
  BY <1>1, SeqFacts
<1> QED BY <1>1, <1>2

LEMMA ClosedSingle ==
  ASSUME NEW S, NEW e \in S, NEW base, e \in Pipelines => CodeOf[e] \subseteq base
  PROVE  Closed(<<e>>, base)
<1>1. DOMAIN <<e>> = {1} /\ <<e>>[1] = e
  BY SingleFacts, SeqFacts
<1> QED BY <1>1 DEF Closed

\* A finite set as a sequence.
LEMMA SetAsSeq ==
  ASSUME NEW S, IsFiniteSet(S)
  PROVE  SetToSeq(S) \in Seq(S) /\ Range(SetToSeq(S)) = S
<1>1. Cardinality(S) \in Nat /\ ExistsBijection(1 .. Cardinality(S), S)
  BY FS_CardinalityType
<1>2. PICK f \in [1 .. Cardinality(S) -> S] : f \in Injection(1 .. Cardinality(S), S)
  BY <1>1 DEF ExistsBijection, Bijection, Injection
<1>3. IsInjective(f)
  BY <1>2 DEF Injection, IsInjective
<1> DEFINE g == SetToSeq(S)
<1>4. g \in [1 .. Cardinality(S) -> S] /\ IsInjective(g)
  BY <1>3 DEF SetToSeq
<1> HIDE DEF g
<1>5. g \in Injection(1 .. Cardinality(S), S)
  BY <1>4 DEF Injection, IsInjective
<1>6. IsFiniteSet(1 .. Cardinality(S)) /\ Cardinality(1 .. Cardinality(S)) = Cardinality(S)
  BY <1>1, FS_Interval
<1>7. g \in Surjection(1 .. Cardinality(S), S)
  BY <1>5, <1>6, FS_Injection
<1>8. Range(g) = S
  BY <1>4, <1>7 DEF Surjection, Range
<1>9. g \in Seq(S)
  BY <1>1, <1>4
<1> QED BY <1>8, <1>9 DEF g

\* A sequence whose elements are in T.
LEMMA SeqRetyped ==
  ASSUME NEW S, NEW T, NEW s \in Seq(S), \A k \in 1 .. Len(s) : s[k] \in T
  PROVE  s \in Seq(T)
<1>1. Len(s) \in Nat /\ s \in [1 .. Len(s) -> S]
  BY LenProperties
<1>2. s \in [1 .. Len(s) -> T]
  BY <1>1
<1> QED BY <1>1, <1>2

\* What can be read of a file starts with its header, and has only links after it.
LEMMA ReadableFacts ==
  ASSUME NEW s \in Seq(Entries), DataOk(s), build \in 1 .. MaxBuilds
  PROVE  /\ Readable(s) \in Seq(Entries)
         /\ IsValid(s) => /\ Readable(s) # <<>> /\ Head(Readable(s)) = Header(build)
                          /\ Tail(Readable(s)) \in Seq(Links)
                          /\ Range(Readable(s)) = {Header(build)} \cup Range(Tail(Readable(s)))
                          /\ Range(Tail(Readable(s))) \subseteq Links
         /\ ~IsValid(s) => Readable(s) = <<>> /\ Range(Readable(s)) = {}
<1>1. PICK m \in 0 .. Len(s) : /\ Whole(s) = SubSeq(s, 1, m)
                               /\ \A k \in 1 .. m : s[k] # Torn
                               /\ m < Len(s) => s[m + 1] = Torn
  BY WholeFacts
<1> DEFINE w == SubSeq(s, 1, m)
<1>2. w \in Seq(Entries) /\ Len(w) = m /\ \A k \in 1 .. m : w[k] = s[k]
  BY PrefixFacts
<1>3. Len(s) \in Nat /\ DOMAIN s = 1 .. Len(s) /\ (s # <<>> <=> Len(s) >= 1)
  BY SeqFacts
<1> HIDE DEF w
<1>4. CASE ~IsValid(s)
  <2>1. Readable(s) = <<>> /\ Range(<<>>) = {} /\ <<>> \in Seq(Entries)
    BY <1>4 DEF Readable, Range
  <2> QED BY <1>4, <2>1
<1>5. CASE IsValid(s)
  <2>1. Readable(s) = w
    BY <1>1, <1>5 DEF Readable, w
  <2>2. s[1] = Header(build) /\ Len(s) >= 1 /\ s[1] # Torn
    BY <1>3, <1>5, Kinds DEF IsValid
  <2>3. m >= 1
    BY <1>1, <1>3, <2>2
  <2>4. w # <<>>
    BY <1>2, <2>3, SeqFacts
  <2>5. /\ Head(w) = w[1] /\ Tail(w) \in Seq(Entries) /\ Len(Tail(w)) = m - 1
        /\ \A k \in 1 .. m - 1 : Tail(w)[k] = w[k + 1]
        /\ Range(w) = {Head(w)} \cup Range(Tail(w))
    BY <1>2, <2>4, TailFacts
  <2>6. Head(w) = Header(build)
    BY <1>2, <2>2, <2>3, <2>5
  <2>7. ASSUME NEW k \in 1 .. m - 1  PROVE Tail(w)[k] \in Links
    <3>1. k + 1 \in 1 .. m /\ k + 1 \in DOMAIN s /\ k + 1 # 1
      BY <1>3
    <3>2. Tail(w)[k] = s[k + 1] /\ s[k + 1] # Torn
      BY <1>1, <1>2, <2>5, <3>1
    <3>3. s[k + 1] \in Links \cup {Torn} \/ (k + 1 = 1 /\ s[k + 1] \in Headers)
      BY <3>1 DEF DataOk
    <3> QED BY <3>1, <3>2, <3>3
  <2>8. Tail(w) \in Seq(Links)
    <3>1. \A k \in 1 .. Len(Tail(w)) : Tail(w)[k] \in Links
      BY <2>5, <2>7
    <3> QED BY <2>5, <3>1, SeqRetyped
  <2>9. Range(Tail(w)) \subseteq Links
    BY <2>8, SeqFacts
  <2> QED BY <1>2, <1>5, <2>1, <2>4, <2>5, <2>6, <2>8, <2>9
<1> QED BY <1>4, <1>5

\* Of a file that has n entries, with nothing that can be read after them, the
\* first n can be read.
LEMMA ReadableIs ==
  ASSUME NEW s \in Seq(Entries), NEW n \in 0 .. Len(s),
         \A k \in 1 .. n : s[k] # Torn, n < Len(s) => s[n + 1] = Torn,
         n >= 1 => s[1] = Header(build)
  PROVE  /\ Readable(s) = SubSeq(s, 1, n)
         /\ IsValid(s) <=> n >= 1
<1>1. Whole(s) = SubSeq(s, 1, n)
  BY WholeIs
<1>2. Len(s) \in Nat /\ (s # <<>> <=> Len(s) >= 1)
  BY SeqFacts
<1>3. CASE n >= 1
  BY <1>1, <1>2, <1>3 DEF Readable, IsValid
<1>4. CASE n = 0
  <2>1. Len(s) >= 1 => s[1] = Torn
    BY <1>2, <1>4
  <2>2. ~IsValid(s)
    BY <1>2, <2>1 DEF IsValid, Header, Torn
  <2>3. SubSeq(s, 1, n) = <<>>
    BY <1>4
  <2> QED BY <1>4, <2>2, <2>3 DEF Readable
<1> QED BY <1>3, <1>4

\* What stdio writes: n entries of the buffer b, and part of the next one or not.
Torns == {<<>>, <<Torn>>}
FlushedFile(old, w, b, n, t) == FileWith(old, w, SubSeq(b, 1, n) \o t)

\* What the file is then.
IsFlushed(F, old, w, b, n) ==
  /\ F \in Seq(Entries) /\ Len(F) >= Len(old) /\ Len(F) >= w + n
  /\ \A k \in 1 .. w : F[k] = old[k]
  /\ \A k \in 1 .. n : F[w + k] = b[k]
  /\ \/ n = 0 /\ F = old
     \/ \A k \in w + n + 1 .. Len(F) : F[k] = Torn

LEMMA FlushFacts ==
  ASSUME NEW old \in Seq(Entries), NEW w \in 0 .. Len(old), NEW b \in Seq(Entries),
         NEW n \in 0 .. Len(b), NEW t \in Torns
  PROVE  IsFlushed(FlushedFile(old, w, b, n, t), old, w, b, n)
<1> DEFINE c == SubSeq(b, 1, n)
           s == c \o t
           F == FileWith(old, w, s)
<1>8. F = FlushedFile(old, w, b, n, t)
  BY DEF FlushedFile
<1>1. c \in Seq(Entries) /\ Len(c) = n /\ \A k \in 1 .. n : c[k] = b[k]
  BY PrefixFacts
<1>2. Torn \in Entries /\ <<Torn>> \in Seq(Entries) /\ <<>> \in Seq(Entries)
      /\ Len(<<>>) = 0 /\ Len(<<Torn>>) = 1 /\ <<Torn>>[1] = Torn
  BY DEF Entries
<1>3. t \in Seq(Entries) /\ (t = <<>> \/ t = <<Torn>>)
  BY <1>2 DEF Torns
<1> HIDE DEF c
<1>9. /\ s \in Seq(Entries) /\ Len(s) = Len(c) + Len(t)
      /\ \A k \in 1 .. Len(c) : s[k] = c[k]
      /\ \A k \in 1 .. Len(t) : s[Len(c) + k] = t[k]
  <2>1. c \in Seq(Entries) /\ t \in Seq(Entries)
    BY <1>1, <1>3
  <2> QED BY ONLY <2>1, ConcatFacts
<1>4. /\ s \in Seq(Entries) /\ Len(s) = n + Len(t)
      /\ \A k \in 1 .. n : s[k] = c[k]
      /\ \A k \in 1 .. Len(t) : s[n + k] = t[k]
  BY <1>1, <1>9
<1>5. Len(old) \in Nat /\ Len(b) \in Nat /\ Len(s) \in Nat /\ Len(t) \in {0, 1} /\ (s # <<>> <=> Len(s) >= 1)
  BY <1>2, <1>3, <1>4, SeqFacts
<1> HIDE DEF s
<1>6. CASE s = <<>>
  <2>1. F = old
    BY <1>6 DEF FileWith
  <2>2. n = 0
    BY <1>4, <1>5, <1>6
  <2>3. Len(F) >= Len(old) /\ Len(F) >= w + n /\ \A k \in 1 .. n : F[w + k] = b[k]
    BY <1>5, <2>1, <2>2
  <2> HIDE DEF F
  <2>4. F \in Seq(Entries) /\ \A k \in 1 .. w : F[k] = old[k]
    BY <2>1
  <2> QED BY <1>8, <2>1, <2>2, <2>3, <2>4 DEF IsFlushed
<1>7. CASE s # <<>>
  <2>1. /\ F \in Seq(Entries) /\ Len(F) >= Len(old) /\ Len(F) >= w + Len(s)
        /\ \A k \in 1 .. w : F[k] = old[k]
        /\ \A k \in 1 .. Len(s) : F[w + k] = s[k]
        /\ \A k \in w + Len(s) + 1 .. Len(F) : F[k] = Torn
    BY <1>4, <1>7, FileWithFacts
  <2> HIDE DEF F
  <2>2. Len(F) \in Nat /\ Len(F) >= w + n
    BY <1>4, <1>5, <2>1, SeqFacts
  <2>3. \A k \in 1 .. n : F[w + k] = b[k]
    <3> TAKE k \in 1 .. n
    <3>1. k \in 1 .. Len(s)
      BY <1>4, <1>5
    <3> QED BY <1>1, <1>4, <2>1, <3>1
  <2>4. \A k \in w + n + 1 .. Len(F) : F[k] = Torn
    <3> TAKE k \in w + n + 1 .. Len(F)
    <3>1. CASE k \in w + Len(s) + 1 .. Len(F)
      BY <2>1, <3>1
    <3>2. CASE k \notin w + Len(s) + 1 .. Len(F)
      <4>1. k \in Nat /\ w \in Nat /\ n \in Nat /\ k >= w + n + 1 /\ k <= w + (n + Len(t))
        BY <1>4, <1>5, <2>2, <3>2
      <4>2. PICK l \in {0, 1} : l = Len(t)
        BY <1>5
      <4>3. k >= w + n + 1 /\ k <= w + (n + l)
        BY <4>1, <4>2
      <4>4. l = 1 /\ k = w + (n + 1)
        BY <4>1, <4>3
      <4>5. Len(t) = 1 /\ k = w + (n + 1)
        BY <4>2, <4>4
      <4>6. t = <<Torn>>
        <5>1. Len(<<>>) # Len(t)
          BY <4>5
        <5>2. t # <<>>
          BY <5>1, Zenon
        <5> QED BY <1>3, <5>2, Zenon
      <4>7. n + 1 \in 1 .. Len(s) /\ 1 \in 1 .. Len(t)
        BY <1>4, <4>1, <4>5
      <4>8. s[n + 1] = Torn
        BY <1>2, <1>4, <4>6, <4>7
      <4>9. F[w + (n + 1)] = s[n + 1]
        BY <2>1, <4>7
      <4> QED BY <4>5, <4>8, <4>9
    <3> QED BY <3>1, <3>2
  <2> QED BY <1>8, <2>1, <2>2, <2>3, <2>4 DEF IsFlushed
<1> QED BY <1>6, <1>7

-----------------------------------------------------------------------------
(* The types.                                                              *)

LEMMA RenamedOk ==
  ASSUME PathOk, NEW m \in Names, NEW n \in Names, m # n, path' = Renamed(m, n)
  PROVE  /\ PathOk'
         /\ \A k \in Names \ {m, n} : path'[k] = path[k]
         /\ path[m] # None => path'[m] = None /\ path'[n] = path[m]
         /\ path[m] = None => path' = path
<1>1. CASE path[m] = None
  BY <1>1 DEF Renamed, PathOk
<1>2. CASE path[m] # None
  <2>1. path' = [path EXCEPT ![n] = path[m], ![m] = None]
    BY <1>2 DEF Renamed
  <2>2. path' \in [Names -> Files \cup {None}]
    BY <2>1 DEF PathOk
  <2>3. /\ \A k \in Names \ {m, n} : path'[k] = path[k]
        /\ path'[m] = None /\ path'[n] = path[m]
    BY <2>1 DEF PathOk
  <2>4. ASSUME NEW k \in Names, NEW l \in Names, k # l, path'[k] # None
        PROVE  path'[k] # path'[l]
    BY <1>2, <2>3, <2>4 DEF PathOk
  <2> QED BY <1>2, <2>2, <2>3, <2>4 DEF PathOk
<1> QED BY <1>1, <1>2

LEMMA DeletedOk ==
  ASSUME PathOk, NEW n \in Names, path' = Deleted(n)
  PROVE  /\ PathOk' /\ path'[n] = None
         /\ \A k \in Names \ {n} : path'[k] = path[k]
<1>1. path' = [path EXCEPT ![n] = None]
  BY DEF Deleted
<1>2. path' \in [Names -> Files \cup {None}]
  BY <1>1 DEF PathOk
<1>3. path'[n] = None /\ \A k \in Names \ {n} : path'[k] = path[k]
  BY <1>1 DEF PathOk
<1>4. ASSUME NEW k \in Names, NEW l \in Names, k # l, path'[k] # None
      PROVE  path'[k] # path'[l]
  BY <1>3, <1>4 DEF PathOk
<1> QED BY <1>2, <1>3, <1>4 DEF PathOk

\* The headers in the files stay headers.
LEMMA FilesFrame ==
  ASSUME TypeInv, UNCHANGED data, build' \in build .. MaxBuilds
  PROVE  FilesOk'
<1>1. Headers \subseteq Headers'
  BY DEF Headers, TypeInv
<1>2. ASSUME NEW f \in Files  PROVE DataOk(data[f])'
  <2>1. DataOk(data[f]) /\ data'[f] = data[f]
    BY DEF TypeInv, FilesOk
  <2> QED BY <1>1, <2>1 DEF DataOk
<1>3. data' \in [Files -> Seq(Entries)]
  BY DEF TypeInv, FilesOk
<1> QED BY <1>2, <1>3 DEF FilesOk

\* A process that does nothing is what it was, if its file does not get shorter.
LEMMA ProcFrame ==
  ASSUME TypeInv, build' \in build .. MaxBuilds, NEW q \in Processes, proc'[q] = proc[q],
         data' \in [Files -> Seq(Entries)],
         proc[q].file # None => Len(data'[proc[q].file]) >= Len(data[proc[q].file])
  PROVE  ProcOk(proc[q])'
<1>1. Headers \subseteq Headers'
  BY DEF Headers, TypeInv
<1>2. ProcOk(proc[q]) /\ proc[q] \in ProcType
  BY DEF TypeInv, ProcsOk
<1>3. BufferOk(proc[q])'
  BY <1>1, <1>2 DEF ProcOk, BufferOk
<1>4. proc'[q].file # None => proc'[q].written <= Len(data'[proc'[q].file])
  <2> SUFFICES ASSUME proc[q].file # None  PROVE proc[q].written <= Len(data'[proc[q].file])
    OBVIOUS
  <2>1. proc[q].file \in Files /\ proc[q].written \in Nat /\ proc[q].written <= Len(data[proc[q].file])
    BY <1>2 DEF ProcOk, ProcType
  <2>2. Len(data[proc[q].file]) \in Nat /\ Len(data'[proc[q].file]) \in Nat
    BY <2>1 DEF TypeInv, FilesOk
  <2> QED BY <2>1, <2>2
<1> QED BY <1>2, <1>3, <1>4 DEF ProcOk

LEMMA ProcsFrame ==
  ASSUME TypeInv, build' \in build .. MaxBuilds, NEW p \in Processes,
         proc' \in [Processes -> ProcType], ProcOk(proc[p])',
         \A q \in Processes \ {p} : proc'[q] = proc[q],
         data' \in [Files -> Seq(Entries)],
         \A q \in Processes \ {p} :
           proc[q].file # None => Len(data'[proc[q].file]) >= Len(data[proc[q].file])
  PROVE  ProcsOk'
<1>1. ASSUME NEW q \in Processes  PROVE ProcOk(proc[q])'
  <2>1. CASE q = p
    BY <2>1
  <2>2. CASE q # p
    <3>1. proc'[q] = proc[q] /\ (proc[q].file # None => Len(data'[proc[q].file]) >= Len(data[proc[q].file]))
      BY <2>2
    <3> QED BY <3>1, ProcFrame
  <2> QED BY <2>1, <2>2
<1> QED BY <1>1 DEF ProcsOk

\* The process goes on somewhere else, and does not work on a file.
Idle == {"promote", "map_write", "take_read", "open_merge", "drop_read", "replace_read",
         "put_back", "replace", "delete_write", "delete_merge", "load"}

LEMMA GoFacts ==
  ASSUME ProcsOk, NEW p \in Processes, NEW x \in Stages, Go(p, x)
  PROVE  /\ proc' \in [Processes -> ProcType] /\ proc'[p] = [proc[p] EXCEPT !.pc = x]
         /\ proc'[p].pc = x /\ \A q \in Processes \ {p} : proc'[q] = proc[q]
         /\ proc'[p].closing = proc[p].closing /\ proc'[p].items = proc[p].items
         /\ proc'[p].library = proc[p].library /\ proc'[p].attempted = proc[p].attempted
         /\ proc'[p].file = proc[p].file /\ proc'[p].written = proc[p].written
         /\ proc'[p].buffer = proc[p].buffer /\ proc'[p].write_map = proc[p].write_map
         /\ proc'[p].map = proc[p].map /\ proc'[p].created = proc[p].created
         /\ proc'[p].alone = proc[p].alone /\ proc'[p].setup = proc[p].setup
<1>1. proc[p] \in ProcType
  BY DEF ProcsOk
<1>2. proc' = [proc EXCEPT ![p] = [proc[p] EXCEPT !.pc = x]]
  BY DEF Go
<1>3. [proc[p] EXCEPT !.pc = x] \in ProcType
  BY <1>1 DEF ProcType
<1>4. proc' \in [Processes -> ProcType] /\ proc'[p] = [proc[p] EXCEPT !.pc = x]
      /\ \A q \in Processes \ {p} : proc'[q] = proc[q]
  BY <1>2, <1>3 DEF ProcsOk
<1> QED BY <1>1, <1>4 DEF ProcType

LEMMA GoType ==
  ASSUME TypeInv, NEW p \in Processes, NEW x \in Idle, proc[p].pc \in Idle, Go(p, x),
         PathOk', UNCHANGED <<data, history>>
  PROVE  TypeInv'
<1>1. UNCHANGED <<data, build, promised, lost, disturbed>>
  BY DEF history
<1>2. ProcsOk /\ FilesOk /\ x \in Stages /\ build \in 1 .. MaxBuilds
  BY DEF TypeInv, Idle, Stages
<1>3. /\ proc' \in [Processes -> ProcType] /\ proc'[p] = [proc[p] EXCEPT !.pc = x]
      /\ proc'[p].pc = x /\ \A q \in Processes \ {p} : proc'[q] = proc[q]
      /\ proc'[p].items = proc[p].items
      /\ proc'[p].library = proc[p].library /\ proc'[p].attempted = proc[p].attempted
      /\ proc'[p].file = proc[p].file /\ proc'[p].written = proc[p].written
      /\ proc'[p].buffer = proc[p].buffer
      /\ proc'[p].created = proc[p].created /\ proc'[p].setup = proc[p].setup
  BY <1>2, GoFacts
<1>4. build' \in build .. MaxBuilds
  BY <1>1, <1>2
<1>5. FilesOk' /\ data' \in [Files -> Seq(Entries)]
  BY <1>1, <1>2, <1>4, FilesFrame DEF FilesOk
<1>6. ASSUME NEW q \in Processes, proc[q].file # None
      PROVE  Len(data'[proc[q].file]) >= Len(data[proc[q].file])
  <2>1. proc[q].file \in Files
    BY <1>2, <1>6 DEF ProcsOk, ProcType
  <2>2. Len(data[proc[q].file]) \in Nat
    BY <1>2, <2>1 DEF FilesOk
  <2> QED BY <1>1, <2>2
<1>7. ProcOk(proc[p])'
  <2>1. ProcOk(proc[p])
    BY <1>2 DEF ProcsOk
  <2>2. Headers' = Headers
    BY <1>1 DEF Headers
  <2>3. BufferOk(proc[p])'
    BY <1>3, <2>1, <2>2 DEF ProcOk, BufferOk
  <2>4. x \notin {"off", "parse", "append", "loop"} /\ proc[p].pc \notin {"off", "parse", "append", "loop"}
    BY DEF Idle
  <2> QED BY <1>1, <1>3, <2>1, <2>3, <2>4 DEF ProcOk
<1>8. ProcsOk'
  BY <1>3, <1>4, <1>5, <1>6, <1>7, ProcsFrame
<1>9. build' \in 1 .. MaxBuilds /\ promised' \in SUBSET Pipelines /\ disturbed' \in BOOLEAN
  BY <1>1 DEF TypeInv
<1> QED BY <1>5, <1>8, <1>9 DEF TypeInv

LEMMA OffIsProc == Off \in ProcType
<1>1. \A S : <<>> \in Seq(S)
  OBVIOUS
<1>2. /\ "off" \in Stages /\ FALSE \in BOOLEAN /\ {} \in SUBSET Links /\ None \in Files \cup {None}
      /\ 0 \in Nat /\ {} \in SUBSET Entries /\ {} \in SUBSET Pipelines
      /\ <<>> \in Seq(Pipelines) /\ <<>> \in Seq(Entries) /\ <<>> \in Seq(Links)
  BY <1>1 DEF Stages
<1> QED BY <1>2 DEF Off, ProcType

LEMMA ActorType ==
  ASSUME TypeInv, NEW p \in Processes, UNCHANGED <<data, build, promised, lost, disturbed>>, PathOk',
         proc' \in [Processes -> ProcType], \A q \in Processes \ {p} : proc'[q] = proc[q],
         ProcOk(proc[p])'
  PROVE  TypeInv'
<1>1. ProcsOk /\ FilesOk /\ build \in 1 .. MaxBuilds
  BY DEF TypeInv
<1>2. build' \in build .. MaxBuilds /\ UNCHANGED data
  BY <1>1
<1>3. FilesOk' /\ data' \in [Files -> Seq(Entries)]
  BY <1>2, FilesFrame DEF FilesOk
<1>4. \A q \in Processes \ {p} :
        proc[q].file # None => Len(data'[proc[q].file]) >= Len(data[proc[q].file])
  <2> TAKE q \in Processes \ {p}
  <2> HAVE proc[q].file # None
  <2>1. proc[q].file \in Files
    BY <1>1 DEF ProcsOk, ProcType
  <2>2. Len(data[proc[q].file]) \in Nat
    BY <1>1, <2>1 DEF FilesOk
  <2> QED BY <2>2
<1>5. ProcsOk'
  BY <1>2, <1>3, <1>4, ProcsFrame
<1> QED BY <1>3, <1>5 DEF TypeInv

LEMMA CreatePipelineFields ==
  ASSUME ProcsOk, NEW p \in Processes, NEW x \in Pipelines,
         proc' = [proc EXCEPT ![p].items = Append(@, x), ![p].created = @ \cup {x}]
  PROVE  /\ proc' \in [Processes -> ProcType] /\ \A q \in Processes \ {p} : proc'[q] = proc[q]
         /\ proc'[p].pc = proc[p].pc /\ proc'[p].closing = proc[p].closing
         /\ proc'[p].items = Append(proc[p].items, x) /\ proc'[p].library = proc[p].library
         /\ proc'[p].attempted = proc[p].attempted /\ proc'[p].file = proc[p].file
         /\ proc'[p].written = proc[p].written /\ proc'[p].buffer = proc[p].buffer
         /\ proc'[p].write_map = proc[p].write_map /\ proc'[p].map = proc[p].map
         /\ proc'[p].created = proc[p].created \cup {x}
         /\ proc'[p].alone = proc[p].alone /\ proc'[p].setup = proc[p].setup
<1> DEFINE R == [proc[p] EXCEPT !.items = Append(@, x), !.created = @ \cup {x}]
<1>1. proc[p] \in ProcType
  BY DEF ProcsOk
<1>2. Append(proc[p].items, x) \in Seq(Pipelines) /\ proc[p].created \cup {x} \in SUBSET Pipelines
  BY <1>1 DEF ProcType
<1>3. R \in ProcType
  BY <1>1, <1>2 DEF ProcType
<1>4. proc' = [proc EXCEPT ![p] = R]
  OBVIOUS
<1>5. proc' \in [Processes -> ProcType] /\ proc'[p] = R
      /\ \A q \in Processes \ {p} : proc'[q] = proc[q]
  BY <1>3, <1>4 DEF ProcsOk
<1> QED BY <1>1, <1>5 DEF ProcType

LEMMA FlushFields ==
  ASSUME ProcsOk, NEW p \in Processes, proc' = [proc EXCEPT ![p].closing = TRUE]
  PROVE  /\ proc' \in [Processes -> ProcType] /\ \A q \in Processes \ {p} : proc'[q] = proc[q]
         /\ proc'[p].pc = proc[p].pc /\ proc'[p].closing = TRUE
         /\ proc'[p].items = proc[p].items /\ proc'[p].library = proc[p].library
         /\ proc'[p].attempted = proc[p].attempted /\ proc'[p].file = proc[p].file
         /\ proc'[p].written = proc[p].written /\ proc'[p].buffer = proc[p].buffer
         /\ proc'[p].write_map = proc[p].write_map /\ proc'[p].map = proc[p].map
         /\ proc'[p].created = proc[p].created
         /\ proc'[p].alone = proc[p].alone /\ proc'[p].setup = proc[p].setup
<1> DEFINE R == [proc[p] EXCEPT !.closing = TRUE]
<1>1. proc[p] \in ProcType
  BY DEF ProcsOk
<1>3. R \in ProcType
  BY <1>1 DEF ProcType
<1>4. proc' = [proc EXCEPT ![p] = R]
  OBVIOUS
<1>5. proc' \in [Processes -> ProcType] /\ proc'[p] = R
      /\ \A q \in Processes \ {p} : proc'[q] = proc[q]
  BY <1>3, <1>4 DEF ProcsOk
<1> QED BY <1>1, <1>5 DEF ProcType

LEMMA MapWriteFields ==
  ASSUME ProcsOk, NEW p \in Processes, NEW s \in Seq(Links),
         proc' = [proc EXCEPT ![p].pc = "take_read", ![p].write_map = s]
  PROVE  /\ proc' \in [Processes -> ProcType] /\ \A q \in Processes \ {p} : proc'[q] = proc[q]
         /\ proc'[p].pc = "take_read" /\ proc'[p].closing = proc[p].closing
         /\ proc'[p].items = proc[p].items /\ proc'[p].library = proc[p].library
         /\ proc'[p].attempted = proc[p].attempted /\ proc'[p].file = proc[p].file
         /\ proc'[p].written = proc[p].written /\ proc'[p].buffer = proc[p].buffer
         /\ proc'[p].write_map = s /\ proc'[p].created = proc[p].created
         /\ proc'[p].alone = proc[p].alone /\ proc'[p].setup = proc[p].setup
<1> DEFINE R == [proc[p] EXCEPT !.pc = "take_read", !.write_map = s]
<1>1. proc[p] \in ProcType
  BY DEF ProcsOk
<1>3. R \in ProcType
  BY <1>1 DEF ProcType, Stages
<1>4. proc' = [proc EXCEPT ![p] = R]
  OBVIOUS
<1>5. proc' \in [Processes -> ProcType] /\ proc'[p] = R
      /\ \A q \in Processes \ {p} : proc'[q] = proc[q]
  BY <1>3, <1>4 DEF ProcsOk
<1> QED BY <1>1, <1>5 DEF ProcType

LEMMA OpenMergeFields ==
  ASSUME ProcsOk, NEW p \in Processes, NEW f \in Files,
         proc' = [proc EXCEPT ![p].pc = "parse", ![p].file = f]
  PROVE  /\ proc' \in [Processes -> ProcType] /\ \A q \in Processes \ {p} : proc'[q] = proc[q]
         /\ proc'[p].pc = "parse" /\ proc'[p].closing = proc[p].closing
         /\ proc'[p].items = proc[p].items /\ proc'[p].library = proc[p].library
         /\ proc'[p].attempted = proc[p].attempted /\ proc'[p].file = f
         /\ proc'[p].written = proc[p].written /\ proc'[p].buffer = proc[p].buffer
         /\ proc'[p].write_map = proc[p].write_map /\ proc'[p].created = proc[p].created
         /\ proc'[p].alone = proc[p].alone /\ proc'[p].setup = proc[p].setup
<1> DEFINE R == [proc[p] EXCEPT !.pc = "parse", !.file = f]
<1>1. proc[p] \in ProcType
  BY DEF ProcsOk
<1>3. R \in ProcType
  BY <1>1 DEF ProcType, Stages
<1>4. proc' = [proc EXCEPT ![p] = R]
  OBVIOUS
<1>5. proc' \in [Processes -> ProcType] /\ proc'[p] = R
      /\ \A q \in Processes \ {p} : proc'[q] = proc[q]
  BY <1>3, <1>4 DEF ProcsOk
<1> QED BY <1>1, <1>5 DEF ProcType

LEMMA ParseFields ==
  ASSUME ProcsOk, NEW p \in Processes, NEW s \in Seq(Entries),
         proc' = [proc EXCEPT ![p].pc = "append", ![p].map = Range(s), ![p].written = Len(s)]
  PROVE  /\ proc' \in [Processes -> ProcType] /\ \A q \in Processes \ {p} : proc'[q] = proc[q]
         /\ proc'[p].pc = "append" /\ proc'[p].closing = proc[p].closing
         /\ proc'[p].items = proc[p].items /\ proc'[p].library = proc[p].library
         /\ proc'[p].attempted = proc[p].attempted /\ proc'[p].file = proc[p].file
         /\ proc'[p].written = Len(s) /\ proc'[p].buffer = proc[p].buffer
         /\ proc'[p].map = Range(s)
         /\ proc'[p].write_map = proc[p].write_map /\ proc'[p].created = proc[p].created
         /\ proc'[p].alone = proc[p].alone /\ proc'[p].setup = proc[p].setup
<1> DEFINE R == [proc[p] EXCEPT !.pc = "append", !.map = Range(s), !.written = Len(s)]
<1>1. proc[p] \in ProcType
  BY DEF ProcsOk
<1>2. Range(s) \in SUBSET Entries /\ Len(s) \in Nat
  BY SeqFacts
<1>3. R \in ProcType
  BY <1>1, <1>2 DEF ProcType, Stages
<1>4. proc' = [proc EXCEPT ![p] = R]
  OBVIOUS
<1>5. proc' \in [Processes -> ProcType] /\ proc'[p] = R
      /\ \A q \in Processes \ {p} : proc'[q] = proc[q]
  BY <1>3, <1>4 DEF ProcsOk
<1> QED BY <1>1, <1>5 DEF ProcType

LEMMA MergeEntryFields ==
  ASSUME ProcsOk, NEW p \in Processes, proc[p].write_map # <<>>,
         proc' = [proc EXCEPT ![p].write_map = Tail(@), ![p].map = @ \cup {Head(proc[p].write_map)},
                              ![p].buffer = IF Head(proc[p].write_map) \in proc[p].map THEN @
                                            ELSE Append(@, Head(proc[p].write_map))]
  PROVE  /\ proc' \in [Processes -> ProcType] /\ \A q \in Processes \ {p} : proc'[q] = proc[q]
         /\ proc'[p].pc = proc[p].pc /\ proc'[p].closing = proc[p].closing
         /\ proc'[p].items = proc[p].items /\ proc'[p].library = proc[p].library
         /\ proc'[p].attempted = proc[p].attempted /\ proc'[p].file = proc[p].file
         /\ proc'[p].written = proc[p].written
         /\ proc'[p].buffer = IF Head(proc[p].write_map) \in proc[p].map THEN proc[p].buffer
                              ELSE Append(proc[p].buffer, Head(proc[p].write_map))
         /\ proc'[p].write_map = Tail(proc[p].write_map)
         /\ proc'[p].map = proc[p].map \cup {Head(proc[p].write_map)}
         /\ proc'[p].created = proc[p].created
         /\ proc'[p].alone = proc[p].alone /\ proc'[p].setup = proc[p].setup
<1> DEFINE e == Head(proc[p].write_map)
           B == IF e \in proc[p].map THEN proc[p].buffer ELSE Append(proc[p].buffer, e)
           T == Tail(proc[p].write_map)
           R == [proc[p] EXCEPT !.write_map = T, !.map = @ \cup {e}, !.buffer = B]
<1>1. proc[p] \in ProcType
  BY DEF ProcsOk
<1>2. proc[p].write_map \in Seq(Links) /\ proc[p].buffer \in Seq(Entries) /\ proc[p].map \in SUBSET Entries
  BY <1>1 DEF ProcType
<1>3. e \in Links /\ T \in Seq(Links)
  BY <1>2
<1>4. e \in Entries
  BY <1>3 DEF Entries
<1>5. B \in Seq(Entries) /\ proc[p].map \cup {e} \in SUBSET Entries
  BY <1>2, <1>4
<1>6. proc' = [proc EXCEPT ![p] = R]
  OBVIOUS
<1> HIDE DEF e, B, T
<1>7. R \in ProcType
  BY <1>1, <1>3, <1>5 DEF ProcType
<1>8. proc' \in [Processes -> ProcType] /\ proc'[p] = R
      /\ \A q \in Processes \ {p} : proc'[q] = proc[q]
  BY <1>6, <1>7 DEF ProcsOk
<1>9. /\ proc'[p].pc = proc[p].pc /\ proc'[p].closing = proc[p].closing
      /\ proc'[p].items = proc[p].items /\ proc'[p].library = proc[p].library
      /\ proc'[p].attempted = proc[p].attempted /\ proc'[p].file = proc[p].file
      /\ proc'[p].written = proc[p].written
      /\ proc'[p].buffer = B
      /\ proc'[p].write_map = T
      /\ proc'[p].map = proc[p].map \cup {e}
      /\ proc'[p].created = proc[p].created
      /\ proc'[p].alone = proc[p].alone /\ proc'[p].setup = proc[p].setup
  BY <1>1, <1>8 DEF ProcType
<1> QED BY <1>8, <1>9 DEF e, B, T

LEMMA CloseFields ==
  ASSUME ProcsOk, NEW p \in Processes, NEW x \in Stages, Close(p, x)
  PROVE  /\ proc' \in [Processes -> ProcType] /\ \A q \in Processes \ {p} : proc'[q] = proc[q]
         /\ proc'[p].pc = x /\ proc'[p].closing = proc[p].closing
         /\ proc'[p].items = proc[p].items /\ proc'[p].library = proc[p].library
         /\ proc'[p].attempted = proc[p].attempted /\ proc'[p].file = None
         /\ proc'[p].written = 0 /\ proc'[p].buffer = <<>>
         /\ proc'[p].created = proc[p].created
         /\ proc'[p].alone = proc[p].alone /\ proc'[p].setup = proc[p].setup
<1> DEFINE R == [proc[p] EXCEPT !.pc = x, !.file = None, !.written = 0,
                                !.buffer = <<>>, !.write_map = <<>>, !.map = {}]
<1>1. proc[p] \in ProcType
  BY DEF ProcsOk
<1>2. <<>> \in Seq(Entries) /\ <<>> \in Seq(Links) /\ None \in Files \cup {None} /\ 0 \in Nat
  OBVIOUS
<1>3. R \in ProcType
  BY <1>1, <1>2 DEF ProcType
<1>4. proc' = [proc EXCEPT ![p] = R]
  BY DEF Close
<1>5. proc' \in [Processes -> ProcType] /\ proc'[p] = R
      /\ \A q \in Processes \ {p} : proc'[q] = proc[q]
  BY <1>3, <1>4 DEF ProcsOk
<1> QED BY <1>1, <1>5 DEF ProcType

LEMMA LoadFields ==
  ASSUME ProcsOk, NEW p \in Processes, NEW L \in SUBSET Links,
         proc' = [proc EXCEPT ![p].pc = "loop", ![p].setup = ~proc[p].closing, ![p].library = L]
  PROVE  /\ proc' \in [Processes -> ProcType] /\ \A q \in Processes \ {p} : proc'[q] = proc[q]
         /\ proc'[p].pc = "loop" /\ proc'[p].closing = proc[p].closing
         /\ proc'[p].items = proc[p].items /\ proc'[p].library = L
         /\ proc'[p].attempted = proc[p].attempted /\ proc'[p].file = proc[p].file
         /\ proc'[p].written = proc[p].written /\ proc'[p].buffer = proc[p].buffer
         /\ proc'[p].write_map = proc[p].write_map /\ proc'[p].created = proc[p].created
         /\ proc'[p].alone = proc[p].alone /\ proc'[p].setup = ~proc[p].closing
<1> DEFINE R == [proc[p] EXCEPT !.pc = "loop", !.setup = ~proc[p].closing, !.library = L]
<1>1. proc[p] \in ProcType
  BY DEF ProcsOk
<1>2. (~proc[p].closing) \in BOOLEAN
  OBVIOUS
<1>3. R \in ProcType
  BY <1>1, <1>2 DEF ProcType, Stages
<1>4. proc' = [proc EXCEPT ![p] = R]
  OBVIOUS
<1>5. proc' \in [Processes -> ProcType] /\ proc'[p] = R
      /\ \A q \in Processes \ {p} : proc'[q] = proc[q]
  BY <1>3, <1>4 DEF ProcsOk
<1> QED BY <1>1, <1>5 DEF ProcType

-----------------------------------------------------------------------------
(* What is saved, and what a file is after a part of it was written.       *)

\* What a process writes when a pipeline is saved: what it is linked to, first.
LEMMA BlobsFacts ==
  ASSUME NEW p \in Processes, NEW x \in Pipelines, proc[p].library \subseteq Links
  PROVE  /\ Blobs(p, x) \in Seq(Links)
         /\ x \in proc[p].library \cup Range(Blobs(p, x))
         /\ Range(Blobs(p, x)) \subseteq {x} \cup CodeOf[x]
         /\ x \notin proc[p].library => CodeOf[x] \subseteq proc[p].library \cup Range(Blobs(p, x))
         /\ Closed(Blobs(p, x), proc[p].library)
<1>1. CASE x \in proc[p].library
  <2>1. Blobs(p, x) = <<>>
    BY <1>1 DEF Blobs
  <2>2. <<>> \in Seq(Links) /\ Range(<<>>) = {} /\ Closed(<<>>, proc[p].library)
    BY ClosedEmpty DEF Range
  <2> QED BY <1>1, <2>1, <2>2
<1>2. CASE x \notin proc[p].library
  <2> DEFINE C == CodeOf[x] \ proc[p].library
             s == SetToSeq(C)
  <2>1. CodeOf[x] \subseteq Code /\ x \notin Code /\ IsFiniteSet(CodeOf[x])
    BY Kinds
  <2>2. IsFiniteSet(C) /\ C \subseteq Code
    <3>1. C \in SUBSET CodeOf[x]
      OBVIOUS
    <3> QED BY <2>1, <3>1, FS_Subset
  <2>3. s \in Seq(C) /\ Range(s) = C
    BY <2>2, SetAsSeq
  <2> HIDE DEF s
  <2>4. s \in Seq(Links) /\ x \in Links
    <3>1. \A k \in 1 .. Len(s) : s[k] \in Links
      BY <2>2, <2>3, SeqFacts DEF Links
    <3> QED BY <2>3, <3>1, SeqRetyped DEF Links
  <2>5. <<x>> \in Seq(Links) /\ Range(<<x>>) = {x}
    BY <2>4, SingleFacts
  <2>6. Blobs(p, x) = s \o <<x>>
    BY <1>2 DEF Blobs, s
  <2>7. s \o <<x>> \in Seq(Links) /\ Range(s \o <<x>>) = C \cup {x}
    <3>1. s \o <<x>> \in Seq(Links) /\ Range(s \o <<x>>) = Range(s) \cup Range(<<x>>)
      BY <2>4, <2>5, ConcatFacts
    <3> QED BY <2>3, <2>5, <3>1
  <2>8. Closed(s, proc[p].library)
    <3>1. Range(s) \cap Pipelines = {}
      BY <2>2, <2>3, CacheAssumption
    <3> QED BY <2>3, <3>1, ClosedNoPipelines
  <2>9. Closed(<<x>>, proc[p].library \cup Range(s))
    <3>1. CodeOf[x] \subseteq proc[p].library \cup Range(s)
      BY <2>3
    <3> QED BY <2>4, <3>1, ClosedSingle
  <2>10. Closed(s \o <<x>>, proc[p].library)
    BY <2>4, <2>5, <2>8, <2>9, ClosedConcat
  <2> QED BY <1>2, <2>6, <2>7, <2>10
<1> QED BY <1>1, <1>2

\* There is a file that is not used, when there is nothing under the name of the
\* write-only archive.
LEMMA FreeFileFacts ==
  ASSUME TypeInv, path["write"] = None
  PROVE  /\ FreeFile \in Files /\ FreeFile # None
         /\ \A n \in Names : path[n] # FreeFile
         /\ \A p \in Processes : proc[p].file # FreeFile
<1> DEFINE g == [p \in Processes |-> proc[p].file]
           F == {proc[p].file : p \in Processes}
           U == (F \cup {path["read"]}) \cup {path["merge"]}
<1>1. g \in Surjection(Processes, F)
  BY DEF Surjection
<1>2. IsFiniteSet(Processes)
  BY CacheAssumption
<1>3. IsFiniteSet(F) /\ Cardinality(F) <= Cardinality(Processes)
  BY <1>1, <1>2, FS_Surjection
<1>4. Cardinality(Processes) \in Nat /\ Cardinality(F) \in Nat
  BY <1>2, <1>3, FS_CardinalityType
<1> HIDE DEF F
<1>5. /\ IsFiniteSet(F \cup {path["read"]})
      /\ Cardinality(F \cup {path["read"]}) = IF path["read"] \in F THEN Cardinality(F) ELSE Cardinality(F) + 1
  BY <1>3, FS_AddElement
<1>6. Cardinality(F \cup {path["read"]}) \in Nat /\ Cardinality(F \cup {path["read"]}) <= Cardinality(F) + 1
  BY <1>4, <1>5
<1>7. /\ IsFiniteSet(U)
      /\ Cardinality(U) = IF path["merge"] \in F \cup {path["read"]} THEN Cardinality(F \cup {path["read"]})
                          ELSE Cardinality(F \cup {path["read"]}) + 1
  BY <1>5, FS_AddElement
<1>8. Cardinality(U) \in Nat /\ Cardinality(U) <= Cardinality(Processes) + 2
  BY <1>3, <1>4, <1>6, <1>7
<1>9. Cardinality(Files) = 3 + Cardinality(Processes)
  <2>1. 3 + Cardinality(Processes) \in Int /\ 1 \in Int
    BY <1>4
  <2>2. Cardinality(1 .. 3 + Cardinality(Processes)) =
          IF 1 > 3 + Cardinality(Processes) THEN 0 ELSE (3 + Cardinality(Processes)) - 1 + 1
    BY <2>1, FS_Interval
  <2> QED BY <1>4, <2>2 DEF Files
<1> HIDE DEF U
<1>10. ~(Files \subseteq U)
  <2> SUFFICES ASSUME Files \in SUBSET U  PROVE FALSE
    OBVIOUS
  <2>1. Cardinality(Files) <= Cardinality(U)
    BY <1>7, FS_Subset
  <2> QED BY <1>4, <1>8, <1>9, <2>1
<1>11. PICK f \in Files : f \notin U
  BY <1>10
<1>12. None \notin Files
  BY Kinds
<1>13. \A h \in Files : h \notin Range(path) <=> \A n \in Names : path[n] # h
  BY DEF Range, TypeInv, PathOk
<1>14. \A n \in Names : path[n] # f
  <2>1. f # path["read"] /\ f # path["merge"] /\ f # None
    BY <1>11, <1>12 DEF U
  <2> QED BY <2>1 DEF Names
<1>15. \A p \in Processes : f # proc[p].file
  BY <1>11 DEF U, F
<1>16. FreeFile \in Files /\ FreeFile \notin Range(path) /\ \A p \in Processes : FreeFile # proc[p].file
  BY <1>11, <1>13, <1>14, <1>15 DEF FreeFile
<1> QED BY <1>12, <1>13, <1>16

\* The file a pipeline goes to, and what is put in front of it.
Saved(p) == Blobs(p, Head(proc[p].items))
First(p) == Saved(p) # <<>> /\ ~proc[p].attempted
Opens(p) == First(p) /\ path["write"] = None
Target(p) == IF Opens(p) THEN FreeFile ELSE proc[p].file
Added(p) == (IF Opens(p) THEN <<Header(build)>> ELSE <<>>) \o Saved(p)

LEMMA SaveFields ==
  ASSUME TypeInv, NEW p \in Processes, Save(p)
  PROVE  /\ proc[p].pc = "loop" /\ proc[p].items # <<>>
         /\ Head(proc[p].items) \in Pipelines /\ Saved(p) \in Seq(Links) /\ Added(p) \in Seq(Entries)
         /\ Target(p) \in Files \cup {None}
         /\ path' = IF Opens(p) THEN [path EXCEPT !["write"] = FreeFile] ELSE path
         /\ data' = IF Opens(p) THEN [data EXCEPT ![FreeFile] = <<>>] ELSE data
         /\ UNCHANGED <<build, promised, lost, disturbed>>
         /\ proc' \in [Processes -> ProcType] /\ \A q \in Processes \ {p} : proc'[q] = proc[q]
         /\ proc'[p].pc = "loop" /\ proc'[p].closing = proc[p].closing
         /\ proc'[p].items = Tail(proc[p].items) /\ proc'[p].library = proc[p].library \cup Range(Saved(p))
         /\ proc'[p].attempted = (proc[p].attempted \/ First(p)) /\ proc'[p].file = Target(p)
         /\ proc'[p].written = proc[p].written
         /\ proc'[p].buffer = IF Target(p) = None THEN proc[p].buffer ELSE proc[p].buffer \o Added(p)
         /\ proc'[p].created = proc[p].created
         /\ proc'[p].alone = proc[p].alone /\ proc'[p].setup = proc[p].setup
<1> DEFINE x == Head(proc[p].items)
           B == IF Target(p) = None THEN proc[p].buffer ELSE proc[p].buffer \o Added(p)
           R == [proc[p] EXCEPT !.items = Tail(@), !.library = @ \cup Range(Saved(p)),
                                !.attempted = @ \/ First(p), !.file = Target(p), !.buffer = B]
<1>1. proc[p] \in ProcType /\ ProcsOk
  BY DEF TypeInv, ProcsOk
<1>2. proc[p].pc = "loop" /\ proc[p].items # <<>> /\ proc[p].items \in Seq(Pipelines)
  BY <1>1 DEF Save, At, ProcType
<1>3. x \in Pipelines /\ Tail(proc[p].items) \in Seq(Pipelines)
  BY <1>2
<1>4. Saved(p) \in Seq(Links)
  BY <1>1, <1>3, BlobsFacts DEF ProcType, Saved
<1>5. Saved(p) \in Seq(Entries) /\ Range(Saved(p)) \subseteq Links
  <2>1. Range(Saved(p)) \subseteq Links /\ \A k \in 1 .. Len(Saved(p)) : Saved(p)[k] \in Entries
    BY <1>4, SeqFacts DEF Entries
  <2> QED BY <1>4, <2>1, SeqRetyped
<1>6. Header(build) \in Entries
  BY DEF Entries, TypeInv
<1>7. Added(p) \in Seq(Entries)
  <2>1. <<Header(build)>> \in Seq(Entries) /\ <<>> \in Seq(Entries)
    BY <1>6
  <2> QED BY <1>5, <2>1, ConcatFacts DEF Added
<1>8. Target(p) \in Files \cup {None}
  BY <1>1, FreeFileFacts DEF Target, Opens, ProcType
<1>9. B \in Seq(Entries)
  BY <1>1, <1>7, ConcatFacts DEF ProcType
<1>10. R \in ProcType
  <2>1. (proc[p].attempted \/ First(p)) \in BOOLEAN /\ proc[p].library \cup Range(Saved(p)) \in SUBSET Links
    BY <1>1, <1>5 DEF ProcType
  <2> HIDE DEF B
  <2> QED BY <1>1, <1>3, <1>8, <1>9, <2>1 DEF ProcType
<1>11. \A b \in Seq(Entries) : (b \o (IF Opens(p) THEN <<Header(build)>> ELSE <<>>)) \o Saved(p) = b \o Added(p)
  <2> TAKE b \in Seq(Entries)
  <2> DEFINE h == IF Opens(p) THEN <<Header(build)>> ELSE <<>>
  <2>1. <<Header(build)>> \in Seq(Entries) /\ <<>> \in Seq(Entries)
    BY <1>6
  <2>2. h \in Seq(Entries) /\ Saved(p) \in Seq(Entries)
    BY <1>5, <2>1
  <2>3. Added(p) = h \o Saved(p)
    BY DEF Added
  <2> HIDE DEF h
  <2>4. (b \o h) \o Saved(p) = b \o (h \o Saved(p))
    BY <2>2, ConcatAssociative
  <2> QED BY <2>3, <2>4 DEF h
<1>12. /\ path' = IF Opens(p) THEN [path EXCEPT !["write"] = Target(p)] ELSE path
       /\ data' = IF Opens(p) THEN [data EXCEPT ![Target(p)] = <<>>] ELSE data
       /\ proc' = [proc EXCEPT ![p].items = Tail(@), ![p].library = @ \cup Range(Saved(p)),
                               ![p].attempted = @ \/ First(p), ![p].file = Target(p),
                               ![p].buffer = IF Target(p) = None THEN @
                                 ELSE @ \o (IF Opens(p) THEN <<Header(build)>> ELSE <<>>) \o Saved(p)]
       /\ UNCHANGED history
  BY Zenon DEF Save, Saved, First, Opens, Target
<1>13. proc' = [proc EXCEPT ![p] = R]
  <2>1. (IF Target(p) = None THEN proc[p].buffer
         ELSE (proc[p].buffer \o (IF Opens(p) THEN <<Header(build)>> ELSE <<>>)) \o Saved(p)) = B
    BY <1>1, <1>11 DEF ProcType
  <2> HIDE DEF B
  <2> QED BY <1>12, <2>1
<1>14. proc' \in [Processes -> ProcType] /\ proc'[p] = R /\ \A q \in Processes \ {p} : proc'[q] = proc[q]
  BY <1>1, <1>10, <1>13 DEF ProcsOk
<1>15. UNCHANGED <<build, promised, lost, disturbed>>
  BY <1>12 DEF history
<1>16. /\ path' = IF Opens(p) THEN [path EXCEPT !["write"] = FreeFile] ELSE path
       /\ data' = IF Opens(p) THEN [data EXCEPT ![FreeFile] = <<>>] ELSE data
  BY <1>12 DEF Target
<1>17. /\ proc'[p].pc = "loop" /\ proc'[p].closing = proc[p].closing
       /\ proc'[p].items = Tail(proc[p].items) /\ proc'[p].library = proc[p].library \cup Range(Saved(p))
       /\ proc'[p].attempted = (proc[p].attempted \/ First(p)) /\ proc'[p].file = Target(p)
       /\ proc'[p].written = proc[p].written
       /\ proc'[p].buffer = B
       /\ proc'[p].created = proc[p].created
       /\ proc'[p].alone = proc[p].alone /\ proc'[p].setup = proc[p].setup
  <2> HIDE DEF B
  <2> QED BY <1>1, <1>2, <1>14 DEF ProcType
<1> QED BY <1>2, <1>3, <1>4, <1>7, <1>8, <1>14, <1>15, <1>16, <1>17

\* Something of the buffer goes to the file.
Flushed(p, n, t) == SubSeq(proc[p].buffer, 1, n) \o t

LEMMA WrittenFacts ==
  ASSUME TypeInv, NEW p \in Processes, proc[p].file # None,
         NEW n \in 0 .. Len(proc[p].buffer), NEW t \in Torns,
         data' = Written(p, Flushed(p, n, t))
  PROVE  /\ data' \in [Files -> Seq(Entries)] /\ proc[p].file \in Files
         /\ \A g \in Files \ {proc[p].file} : data'[g] = data[g]
         /\ Len(data'[proc[p].file]) >= Len(data[proc[p].file])
         /\ Len(data'[proc[p].file]) >= proc[p].written + n
         /\ \A k \in 1 .. proc[p].written : data'[proc[p].file][k] = data[proc[p].file][k]
         /\ \A k \in 1 .. n : data'[proc[p].file][proc[p].written + k] = proc[p].buffer[k]
         /\ \/ n = 0 /\ data'[proc[p].file] = data[proc[p].file]
            \/ \A k \in proc[p].written + n + 1 .. Len(data'[proc[p].file]) :
                 data'[proc[p].file][k] = Torn
         /\ \A g \in Files : DataOk(data'[g])
<1> DEFINE f == proc[p].file
           w == proc[p].written
           b == proc[p].buffer
           old == data[f]
           F == FlushedFile(old, w, b, n, t)
<1>1. proc[p] \in ProcType /\ ProcOk(proc[p]) /\ FilesOk
  BY DEF TypeInv, ProcsOk
<1>2. f \in Files /\ w \in Nat /\ b \in Seq(Entries) /\ old \in Seq(Entries) /\ w <= Len(old)
  BY <1>1 DEF ProcType, ProcOk, FilesOk
<1>3. Len(old) \in Nat /\ w \in 0 .. Len(old) /\ Len(b) \in Nat
  BY <1>2, SeqFacts
<1>4. n \in 0 .. Len(b) /\ old \in Seq(Entries) /\ b \in Seq(Entries) /\ t \in Torns
  BY <1>2
<1>5. data' = [data EXCEPT ![f] = F]
  BY DEF Written, Flushed, FlushedFile
<1>6. BufferOk(proc[p]) /\ DataOk(old)
  BY <1>1, <1>2 DEF ProcOk, FilesOk
<1> HIDE DEF f, w, b, old
<1>11. IsFlushed(FlushedFile(old, w, b, n, t), old, w, b, n)
  BY <1>3, <1>4, FlushFacts
<1>7. IsFlushed(F, old, w, b, n)
  BY <1>11
<1> HIDE DEF F
<1>12. /\ F \in Seq(Entries) /\ Len(F) >= Len(old) /\ Len(F) >= w + n
       /\ \A k \in 1 .. w : F[k] = old[k]
       /\ \A k \in 1 .. n : F[w + k] = b[k]
       /\ \/ n = 0 /\ F = old
          \/ \A k \in w + n + 1 .. Len(F) : F[k] = Torn
  BY <1>7 DEF IsFlushed
<1>8. /\ data' \in [Files -> Seq(Entries)] /\ data'[f] = F
      /\ \A g \in Files \ {f} : data'[g] = data[g]
  BY <1>1, <1>2, <1>5, <1>12 DEF FilesOk
<1>9. ASSUME NEW k \in DOMAIN F
      PROVE  F[k] \in Links \cup {Torn} \/ (k = 1 /\ F[k] \in Headers)
  <2>1. k \in 1 .. Len(F) /\ Len(F) \in Nat
    BY <1>12, SeqFacts
  <2>2. CASE k \in 1 .. w
    <3>1. F[k] = old[k] /\ k \in DOMAIN old
      BY <1>2, <1>3, <1>12, <2>2, SeqFacts
    <3> QED BY <1>6, <3>1 DEF DataOk
  <2>3. CASE k > w /\ k <= w + n
    <3>1. PICK j \in Int : j = k - w
      BY <1>3, <2>1
    <3>2. j \in 1 .. n /\ k = w + j
      BY <1>3, <1>4, <2>1, <2>3, <3>1
    <3>3. F[k] = b[j] /\ j \in DOMAIN b
      BY <1>3, <1>4, <1>12, <3>2, SeqFacts
    <3>4. b[j] \in Links \/ (j = 1 /\ w = 0 /\ b[j] \in Headers)
      BY <1>6, <3>3 DEF BufferOk, b, w
    <3>5. j = 1 /\ w = 0 => k = 1
      BY <3>2
    <3> QED BY <3>3, <3>4, <3>5
  <2>4. CASE k > w + n
    <3>1. CASE F = old
      BY <1>6, <3>1 DEF DataOk
    <3>2. CASE \A i \in w + n + 1 .. Len(F) : F[i] = Torn
      <4>1. k \in w + n + 1 .. Len(F)
        BY <1>3, <1>4, <2>1, <2>4
      <4> QED BY <3>2, <4>1
    <3> QED BY <1>12, <3>1, <3>2
  <2>5. k \in 1 .. w \/ (k > w /\ k <= w + n) \/ k > w + n
    BY <1>3, <1>4, <2>1
  <2> QED BY <2>2, <2>3, <2>4, <2>5
<1>10. ASSUME NEW g \in Files  PROVE DataOk(data'[g])
  <2>1. CASE g = f
    BY <1>8, <1>9, <2>1 DEF DataOk
  <2>2. CASE g # f
    BY <1>1, <1>8, <2>2 DEF FilesOk
  <2> QED BY <2>1, <2>2
<1> QED BY <1>2, <1>12, <1>8, <1>10 DEF f, w, b, old

\* fclose writes all of it.
LEMMA AllFlushed ==
  ASSUME TypeInv, NEW p \in Processes
  PROVE  /\ proc[p].buffer = Flushed(p, Len(proc[p].buffer), <<>>)
         /\ Len(proc[p].buffer) \in 0 .. Len(proc[p].buffer)
<1> DEFINE b == proc[p].buffer
           c == SubSeq(b, 1, Len(b))
<1>1. b \in Seq(Entries)
  BY DEF TypeInv, ProcsOk, ProcType
<1> HIDE DEF b
<1>2. Len(b) \in Nat /\ DOMAIN b = 1 .. Len(b) /\ Len(b) \in 0 .. Len(b)
  BY <1>1, SeqFacts
<1>3. c \in Seq(Entries) /\ Len(c) = Len(b) /\ \A k \in 1 .. Len(b) : c[k] = b[k]
  BY <1>1, <1>2, PrefixFacts
<1> HIDE DEF c
<1>4. c = b
  BY <1>1, <1>3, SeqEqual
<1>5. c \o <<>> = c
  BY <1>3
<1> QED BY <1>2, <1>4, <1>5 DEF Flushed, b, c

\* The other processes' files do not get shorter.
LEMMA WrittenType ==
  ASSUME TypeInv, NEW p \in Processes, proc[p].file # None,
         NEW n \in 0 .. Len(proc[p].buffer), NEW t \in Torns,
         data' = Written(p, Flushed(p, n, t)), UNCHANGED <<path, build, lost, disturbed>>,
         promised' \in SUBSET Pipelines,
         proc' \in [Processes -> ProcType], \A q \in Processes \ {p} : proc'[q] = proc[q],
         ProcOk(proc[p])'
  PROVE  TypeInv'
<1>1. /\ data' \in [Files -> Seq(Entries)] /\ proc[p].file \in Files
      /\ \A g \in Files \ {proc[p].file} : data'[g] = data[g]
      /\ Len(data'[proc[p].file]) >= Len(data[proc[p].file])
      /\ \A g \in Files : DataOk(data'[g])
  BY WrittenFacts
<1>2. Headers' = Headers
  BY DEF Headers
<1>3. FilesOk'
  <2>1. \A g \in Files : DataOk(data[g])'
    BY <1>1, <1>2 DEF DataOk
  <2> QED BY <1>1, <2>1 DEF FilesOk
<1>4. \A q \in Processes \ {p} :
        proc[q].file # None => Len(data'[proc[q].file]) >= Len(data[proc[q].file])
  <2> TAKE q \in Processes \ {p}
  <2> HAVE proc[q].file # None
  <2>1. proc[q].file \in Files
    BY DEF TypeInv, ProcsOk, ProcType
  <2>2. Len(data[proc[q].file]) \in Nat
    BY <2>1 DEF TypeInv, FilesOk
  <2>3. CASE proc[q].file = proc[p].file
    BY <1>1, <2>3
  <2>4. CASE proc[q].file # proc[p].file
    BY <1>1, <2>1, <2>2, <2>4
  <2> QED BY <2>3, <2>4
<1>5. build' \in build .. MaxBuilds
  BY DEF TypeInv
<1>6. ProcsOk'
  BY <1>1, <1>4, <1>5, ProcsFrame
<1>7. PathOk'
  BY DEF TypeInv, PathOk
<1> QED BY <1>3, <1>6, <1>7 DEF TypeInv

LEMMA WriteBufferFields ==
  ASSUME TypeInv, NEW p \in Processes, NEW n \in 0 .. Len(proc[p].buffer),
         proc' = [proc EXCEPT ![p].written = @ + n,
                              ![p].buffer = SubSeq(@, n + 1, Len(@))]
  PROVE  /\ proc' \in [Processes -> ProcType] /\ \A q \in Processes \ {p} : proc'[q] = proc[q]
         /\ proc'[p].pc = proc[p].pc /\ proc'[p].closing = proc[p].closing
         /\ proc'[p].items = proc[p].items /\ proc'[p].library = proc[p].library
         /\ proc'[p].attempted = proc[p].attempted /\ proc'[p].file = proc[p].file
         /\ proc'[p].written = proc[p].written + n
         /\ proc'[p].buffer = SubSeq(proc[p].buffer, n + 1, Len(proc[p].buffer))
         /\ proc'[p].write_map = proc[p].write_map /\ proc'[p].map = proc[p].map
         /\ proc'[p].created = proc[p].created
         /\ proc'[p].alone = proc[p].alone /\ proc'[p].setup = proc[p].setup
<1> DEFINE B == SubSeq(proc[p].buffer, n + 1, Len(proc[p].buffer))
           R == [proc[p] EXCEPT !.written = @ + n, !.buffer = B]
<1>1. proc[p] \in ProcType /\ ProcsOk
  BY DEF TypeInv, ProcsOk
<1>2. proc[p].buffer \in Seq(Entries)
  BY <1>1 DEF ProcType
<1>3. B \in Seq(Entries)
  BY <1>2, SuffixFacts
<1>4. proc[p].written + n \in Nat
  BY <1>1 DEF ProcType
<1>5. proc' = [proc EXCEPT ![p] = R]
  OBVIOUS
<1> HIDE DEF B
<1>6. R \in ProcType
  BY <1>1, <1>3, <1>4 DEF ProcType
<1>7. proc' \in [Processes -> ProcType] /\ proc'[p] = R /\ \A q \in Processes \ {p} : proc'[q] = proc[q]
  BY <1>1, <1>5, <1>6 DEF ProcsOk
<1>8. /\ proc'[p].pc = proc[p].pc /\ proc'[p].closing = proc[p].closing
      /\ proc'[p].items = proc[p].items /\ proc'[p].library = proc[p].library
      /\ proc'[p].attempted = proc[p].attempted /\ proc'[p].file = proc[p].file
      /\ proc'[p].written = proc[p].written + n
      /\ proc'[p].buffer = B
      /\ proc'[p].write_map = proc[p].write_map /\ proc'[p].map = proc[p].map
      /\ proc'[p].created = proc[p].created
      /\ proc'[p].alone = proc[p].alone /\ proc'[p].setup = proc[p].setup
  BY <1>1, <1>7 DEF ProcType
<1> QED BY <1>7, <1>8 DEF B

LEMMA OffFields ==
  ASSUME ProcsOk, NEW p \in Processes, proc' = [proc EXCEPT ![p] = Off]
  PROVE  /\ proc' \in [Processes -> ProcType] /\ proc'[p] = Off
         /\ \A q \in Processes \ {p} : proc'[q] = proc[q]
         /\ ProcOk(proc[p])'
<1>1. /\ proc' \in [Processes -> ProcType] /\ proc'[p] = Off
      /\ \A q \in Processes \ {p} : proc'[q] = proc[q]
  BY OffIsProc DEF ProcsOk
<1>2. DOMAIN <<>> = {} /\ Range(<<>>) = {}
  BY DEF Range
<1>3. ProcOk(Off)'
  BY <1>2 DEF Off, ProcOk, BufferOk
<1> QED BY <1>1, <1>3

-----------------------------------------------------------------------------
(* Every step keeps the types.                                             *)

LEMMA PathFrame ==
  ASSUME PathOk, path' = path
  PROVE  PathOk'
  BY DEF PathOk

LEMMA BufferFrame ==
  ASSUME TypeInv, NEW p \in Processes, build' = build,
         proc'[p].buffer = proc[p].buffer, proc'[p].written = proc[p].written
  PROVE  BufferOk(proc[p])'
<1>1. BufferOk(proc[p])
  BY DEF TypeInv, ProcsOk, ProcOk
<1>2. Headers' = Headers
  BY DEF Headers
<1> QED BY <1>1, <1>2 DEF BufferOk

\* A process that has started.
LEMMA StartedIsProc ==
  ASSUME NEW a \in BOOLEAN
  PROVE  LET P == [Off EXCEPT !.pc = "promote", !.alone = a] IN
         /\ P \in ProcType
         /\ P.pc = "promote" /\ P.closing = FALSE /\ P.items = <<>> /\ P.library = {}
         /\ P.attempted = FALSE /\ P.file = None /\ P.written = 0 /\ P.buffer = <<>>
         /\ P.created = {} /\ P.alone = a /\ P.setup = FALSE
<1> DEFINE P == [Off EXCEPT !.pc = "promote", !.alone = a]
<1>1. Off \in ProcType
  BY OffIsProc
<1>2. P \in ProcType
  BY <1>1 DEF ProcType, Stages
<1>3. /\ P.pc = "promote" /\ P.closing = FALSE /\ P.items = <<>> /\ P.library = {}
      /\ P.attempted = FALSE /\ P.file = None /\ P.written = 0 /\ P.buffer = <<>>
      /\ P.created = {} /\ P.alone = a /\ P.setup = FALSE
  BY DEF Off
<1> QED BY <1>2, <1>3

LEMMA StartType ==
  ASSUME TypeInv, NEW p \in Processes, Start(p)
  PROVE  TypeInv'
<1>1. PathOk' /\ ProcsOk /\ FilesOk /\ UNCHANGED <<path, data, build>>
  BY PathFrame DEF TypeInv, Start
<1>2. DOMAIN <<>> = {} /\ Range(<<>>) = {} /\ "promote" \notin {"off", "parse", "append", "loop"}
  BY DEF Range
<1>3. CASE Alone(p)
  <2> DEFINE R == [Off EXCEPT !.pc = "promote", !.alone = TRUE]
  <2>1. proc' = [proc EXCEPT ![p] = R] /\ UNCHANGED <<promised, lost, disturbed>>
    BY <1>3 DEF Start
  <2>2. /\ R \in ProcType
        /\ R.pc = "promote" /\ R.closing = FALSE /\ R.items = <<>> /\ R.library = {}
        /\ R.attempted = FALSE /\ R.file = None /\ R.written = 0 /\ R.buffer = <<>>
        /\ R.created = {} /\ R.setup = FALSE
    BY StartedIsProc
  <2> HIDE DEF R
  <2>3. proc' \in [Processes -> ProcType] /\ proc'[p] = R /\ \A q \in Processes \ {p} : proc'[q] = proc[q]
    BY <1>1, <2>1, <2>2 DEF ProcsOk
  <2>4. ProcOk(proc[p])'
    BY <1>2, <2>2, <2>3 DEF ProcOk, BufferOk
  <2> QED BY <1>1, <2>1, <2>3, <2>4, ActorType
<1>4. CASE ~Alone(p)
  <2> DEFINE R == [Off EXCEPT !.pc = "promote"]
             Q(q) == [proc[q] EXCEPT !.alone = FALSE]
  <2>1. /\ proc' = [q \in Processes |-> IF q = p THEN R ELSE Q(q)]
        /\ promised' = {} /\ disturbed' = TRUE
    BY <1>4 DEF Start
  <2>2. /\ R \in ProcType
        /\ R.pc = "promote" /\ R.closing = FALSE /\ R.items = <<>> /\ R.library = {}
        /\ R.attempted = FALSE /\ R.file = None /\ R.written = 0 /\ R.buffer = <<>>
        /\ R.created = {} /\ R.setup = FALSE
    <3>1. R \in ProcType
      BY OffIsProc DEF ProcType, Stages
    <3> QED BY <3>1 DEF Off
  <2> HIDE DEF R
  <2>4. ASSUME NEW q \in Processes
        PROVE  /\ Q(q) \in ProcType /\ (proc[q].pc = "off" => Q(q) = Off)
               /\ Q(q).pc = proc[q].pc /\ Q(q).items = proc[q].items /\ Q(q).library = proc[q].library
               /\ Q(q).attempted = proc[q].attempted /\ Q(q).file = proc[q].file
               /\ Q(q).written = proc[q].written /\ Q(q).buffer = proc[q].buffer
               /\ Q(q).created = proc[q].created /\ Q(q).setup = proc[q].setup
    <3>1. proc[q] \in ProcType /\ ProcOk(proc[q])
      BY <1>1 DEF ProcsOk
    <3>2. proc[q].pc = "off" => Q(q) = Off
      <4> SUFFICES ASSUME proc[q].pc = "off"  PROVE Q(q) = Off
        OBVIOUS
      <4>1. proc[q] = Off
        BY <3>1 DEF ProcOk
      <4>2. proc[q].alone = FALSE
        BY <4>1 DEF Off
      <4>3. Q(q) = proc[q]
        BY <3>1, <4>2 DEF ProcType
      <4> QED BY <4>1, <4>3
    <3> QED BY <3>1, <3>2 DEF ProcType
  <2> HIDE DEF Q
  <2>5. proc' \in [Processes -> ProcType] /\ proc'[p] = R /\ \A q \in Processes \ {p} : proc'[q] = Q(q)
    BY <2>1, <2>2, <2>4
  <2>6. Headers' = Headers
    BY <1>1 DEF Headers
  <2>7. ASSUME NEW q \in Processes  PROVE ProcOk(proc[q])'
    <3>1. CASE q = p
      BY <1>2, <2>2, <2>5, <3>1 DEF ProcOk, BufferOk
    <3>2. CASE q # p
      <4>1. ProcOk(proc[q])
        BY <1>1 DEF ProcsOk
      <4>2. proc'[q] = Q(q)
        BY <2>5, <3>2
      <4>3. BufferOk(proc[q])'
        BY <2>4, <2>6, <4>1, <4>2 DEF ProcOk, BufferOk
      <4> QED BY <1>1, <2>4, <4>1, <4>2, <4>3 DEF ProcOk
    <3> QED BY <3>1, <3>2
  <2>8. FilesOk'
    BY <1>1, FilesFrame DEF TypeInv
  <2> QED BY <1>1, <2>1, <2>5, <2>7, <2>8 DEF TypeInv, ProcsOk
<1> QED BY <1>3, <1>4

LEMMA CreatePipelineType ==
  ASSUME TypeInv, NEW p \in Processes, NEW x \in Pipelines, CreatePipeline(p, x)
  PROVE  TypeInv'
<1>1. /\ UNCHANGED <<path, data, build, promised, lost, disturbed>> /\ PathOk' /\ ProcsOk
      /\ proc' = [proc EXCEPT ![p].items = Append(@, x), ![p].created = @ \cup {x}]
      /\ proc[p].pc # "off"
  BY PathFrame DEF TypeInv, CreatePipeline, history, Running
<1>2. /\ proc' \in [Processes -> ProcType] /\ \A q \in Processes \ {p} : proc'[q] = proc[q]
      /\ proc'[p].pc = proc[p].pc
      /\ proc'[p].items = Append(proc[p].items, x) /\ proc'[p].library = proc[p].library
      /\ proc'[p].attempted = proc[p].attempted /\ proc'[p].file = proc[p].file
      /\ proc'[p].written = proc[p].written /\ proc'[p].buffer = proc[p].buffer
      /\ proc'[p].created = proc[p].created \cup {x} /\ proc'[p].setup = proc[p].setup
  BY <1>1, CreatePipelineFields
<1>3. Range(proc'[p].items) = Range(proc[p].items) \cup {x}
  <2>1. proc[p].items \in Seq(Pipelines)
    BY <1>1 DEF ProcsOk, ProcType
  <2>2. Range(Append(proc[p].items, x)) = Range(proc[p].items) \cup {x}
    BY <2>1, RangeAppend
  <2> QED BY <1>2, <2>2
<1>4. ProcOk(proc[p]) /\ BufferOk(proc[p])'
  BY <1>1, <1>2, BufferFrame DEF ProcsOk
<1>5. ProcOk(proc[p])'
  BY <1>1, <1>2, <1>3, <1>4 DEF ProcOk
<1> QED BY <1>1, <1>2, <1>5, ActorType

LEMMA FlushDiskCacheType ==
  ASSUME TypeInv, NEW p \in Processes, FlushDiskCache(p)
  PROVE  TypeInv'
<1>1. /\ UNCHANGED <<path, data, build, promised, lost, disturbed>> /\ PathOk' /\ ProcsOk
      /\ proc' = [proc EXCEPT ![p].closing = TRUE] /\ proc[p].pc # "off"
  BY PathFrame DEF TypeInv, FlushDiskCache, history, Running
<1>2. /\ proc' \in [Processes -> ProcType] /\ \A q \in Processes \ {p} : proc'[q] = proc[q]
      /\ proc'[p].pc = proc[p].pc
      /\ proc'[p].items = proc[p].items /\ proc'[p].library = proc[p].library
      /\ proc'[p].attempted = proc[p].attempted /\ proc'[p].file = proc[p].file
      /\ proc'[p].written = proc[p].written /\ proc'[p].buffer = proc[p].buffer
      /\ proc'[p].created = proc[p].created /\ proc'[p].setup = proc[p].setup
  BY <1>1, FlushFields
<1>3. ProcOk(proc[p]) /\ BufferOk(proc[p])'
  BY <1>1, <1>2, BufferFrame DEF ProcsOk
<1>4. ProcOk(proc[p])'
  BY <1>1, <1>2, <1>3 DEF ProcOk
<1> QED BY <1>1, <1>2, <1>4, ActorType

\* The steps that rename or delete, and go on.
GoesOn(p) ==
  \/ Promote(p) \/ TakeRead(p) \/ DropRead(p) \/ ReplaceRead(p) \/ PutBack(p) \/ Replace(p)
  \/ DeleteWrite(p) \/ DeleteMerge(p)

LEMMA GoesOnType ==
  ASSUME TypeInv, NEW p \in Processes, GoesOn(p)
  PROVE  TypeInv'
<1>1. PathOk
  BY DEF TypeInv
<1>2. "read" \in Names /\ "write" \in Names /\ "merge" \in Names
  BY DEF Names
<1>3. PathOk'
  <2>1. \/ path' = path
        \/ path' = Renamed("write", "read") \/ path' = Renamed("read", "merge")
        \/ path' = Renamed("merge", "read")
        \/ path' = Deleted("merge") \/ path' = Deleted("write")
    BY DEF GoesOn, Promote, TakeRead, DropRead, ReplaceRead, PutBack, Replace, DeleteWrite, DeleteMerge
  <2>2. CASE path' = path
    BY <1>1, <2>2, PathFrame
  <2>3. CASE path' = Renamed("write", "read")
    BY <1>1, <1>2, <2>3, RenamedOk
  <2>4. CASE path' = Renamed("read", "merge")
    BY <1>1, <1>2, <2>4, RenamedOk
  <2>5. CASE path' = Renamed("merge", "read")
    BY <1>1, <1>2, <2>5, RenamedOk
  <2>6. CASE path' = Deleted("merge")
    BY <1>1, <1>2, <2>6, DeletedOk
  <2>7. CASE path' = Deleted("write")
    BY <1>1, <1>2, <2>7, DeletedOk
  <2> QED BY <2>1, <2>2, <2>3, <2>4, <2>5, <2>6, <2>7
<1>4. proc[p].pc \in Idle /\ UNCHANGED <<data, history>>
  BY DEF GoesOn, Promote, TakeRead, DropRead, ReplaceRead, PutBack, Replace, DeleteWrite, DeleteMerge,
         At, Idle
<1>5. \E x \in Idle : Go(p, x)
  <2>1. /\ "delete_write" \in Idle /\ "map_write" \in Idle /\ "open_merge" \in Idle
        /\ "replace_read" \in Idle /\ "load" \in Idle /\ "delete_merge" \in Idle
    BY DEF Idle
  <2>2. \/ Go(p, "delete_write") \/ Go(p, "map_write") \/ Go(p, "open_merge")
        \/ Go(p, "replace_read") \/ Go(p, "load") \/ Go(p, "delete_merge")
    BY DEF GoesOn, Promote, TakeRead, DropRead, ReplaceRead, PutBack, Replace, DeleteWrite, DeleteMerge
  <2> QED BY <2>1, <2>2
<1> QED BY <1>3, <1>4, <1>5, GoType

LEMMA WholeIsSeq ==
  ASSUME NEW s \in Seq(Entries)
  PROVE  Whole(s) \in Seq(Entries) /\ Len(Whole(s)) \in Nat /\ Len(Whole(s)) <= Len(s)
<1>1. PICK m \in 0 .. Len(s) : Whole(s) = SubSeq(s, 1, m)
  BY WholeFacts
<1>2. Whole(s) \in Seq(Entries) /\ Len(Whole(s)) = m
  BY <1>1, PrefixFacts
<1>3. Len(s) \in Nat
  BY SeqFacts
<1> QED BY <1>2, <1>3

LEMMA MapWriteType ==
  ASSUME TypeInv, NEW p \in Processes, MapWrite(p)
  PROVE  TypeInv'
<1> DEFINE f == path["write"]
<1>1. /\ UNCHANGED <<path, data, build, promised, lost, disturbed>> /\ UNCHANGED <<data, history>>
      /\ PathOk' /\ ProcsOk /\ proc[p].pc = "map_write"
  BY PathFrame DEF TypeInv, MapWrite, history, At
<1>2. CASE f # None /\ IsValid(data[f])
  <2>1. f \in Files
    BY <1>2 DEF TypeInv, PathOk, Names
  <2>2. data[f] \in Seq(Entries) /\ DataOk(data[f]) /\ build \in 1 .. MaxBuilds
    BY <2>1 DEF TypeInv, FilesOk
  <2> HIDE DEF f
  <2>3. Tail(Readable(data[f])) \in Seq(Links) /\ Readable(data[f]) = Whole(data[f])
    BY <1>2, <2>2, ReadableFacts DEF Readable
  <2>4. PICK s \in Seq(Links) : s = Tail(Whole(data[f]))
    BY <2>3
  <2>5. proc' = [proc EXCEPT ![p].pc = "take_read", ![p].write_map = s]
    BY <1>2, <2>4 DEF MapWrite, f
  <2>6. /\ proc' \in [Processes -> ProcType] /\ \A q \in Processes \ {p} : proc'[q] = proc[q]
        /\ proc'[p].pc = "take_read"
        /\ proc'[p].items = proc[p].items /\ proc'[p].library = proc[p].library
        /\ proc'[p].attempted = proc[p].attempted /\ proc'[p].file = proc[p].file
        /\ proc'[p].written = proc[p].written /\ proc'[p].buffer = proc[p].buffer
        /\ proc'[p].created = proc[p].created /\ proc'[p].setup = proc[p].setup
    BY <1>1, <2>5, MapWriteFields
  <2>7. ProcOk(proc[p]) /\ BufferOk(proc[p])'
    BY <1>1, <2>6, BufferFrame DEF ProcsOk
  <2>8. ProcOk(proc[p])'
    BY <1>1, <2>6, <2>7 DEF ProcOk
  <2> QED BY <1>1, <2>6, <2>8, ActorType
<1>3. CASE ~(f # None /\ IsValid(data[f]))
  <2>1. Go(p, "delete_write") /\ "delete_write" \in Idle /\ proc[p].pc \in Idle
    BY <1>1, <1>3 DEF MapWrite, Idle
  <2> QED BY <1>1, <2>1, GoType
<1> QED BY <1>2, <1>3

LEMMA OpenMergeType ==
  ASSUME TypeInv, NEW p \in Processes, OpenMerge(p)
  PROVE  TypeInv'
<1> DEFINE f == path["merge"]
<1>1. /\ UNCHANGED <<path, data, build, promised, lost, disturbed>> /\ UNCHANGED <<data, history>>
      /\ PathOk' /\ ProcsOk /\ proc[p].pc = "open_merge"
  BY PathFrame DEF TypeInv, OpenMerge, history, At
<1>2. CASE f # None /\ IsValid(data[f])
  <2>1. f \in Files
    BY <1>2 DEF TypeInv, PathOk, Names
  <2>2. Len(data[f]) \in Nat
    BY <2>1 DEF TypeInv, FilesOk
  <2>3. proc' = [proc EXCEPT ![p].pc = "parse", ![p].file = f]
    BY <1>2 DEF OpenMerge
  <2> HIDE DEF f
  <2>4. /\ proc' \in [Processes -> ProcType] /\ \A q \in Processes \ {p} : proc'[q] = proc[q]
        /\ proc'[p].pc = "parse"
        /\ proc'[p].items = proc[p].items /\ proc'[p].library = proc[p].library
        /\ proc'[p].attempted = proc[p].attempted /\ proc'[p].file = f
        /\ proc'[p].written = proc[p].written /\ proc'[p].buffer = proc[p].buffer
        /\ proc'[p].created = proc[p].created /\ proc'[p].setup = proc[p].setup
    BY <1>1, <2>1, <2>3, OpenMergeFields
  <2>5. ProcOk(proc[p]) /\ BufferOk(proc[p])'
    BY <1>1, <2>4, BufferFrame DEF ProcsOk
  <2>6. proc[p].written = 0 /\ proc[p].buffer = <<>>
    BY <1>1, <2>5 DEF ProcOk
  <2>7. proc'[p].written <= Len(data'[proc'[p].file])
    BY <1>1, <2>2, <2>4, <2>6
  <2>8. proc'[p].file # None
    BY <2>1, <2>4, Kinds
  <2>9. ProcOk(proc[p])'
    BY <1>1, <2>4, <2>5, <2>6, <2>7, <2>8 DEF ProcOk
  <2> QED BY <1>1, <2>4, <2>9, ActorType
<1>3. CASE ~(f # None /\ IsValid(data[f]))
  <2>1. /\ Go(p, "delete_write") \/ Go(p, "drop_read")
        /\ "delete_write" \in Idle /\ "drop_read" \in Idle /\ proc[p].pc \in Idle
    BY <1>1, <1>3 DEF OpenMerge, Idle
  <2> QED BY <1>1, <2>1, GoType
<1> QED BY <1>2, <1>3

LEMMA ParseType ==
  ASSUME TypeInv, NEW p \in Processes, Parse(p)
  PROVE  TypeInv'
<1>1. /\ UNCHANGED <<path, data, build, promised, lost, disturbed>>
      /\ PathOk' /\ ProcsOk /\ proc[p].pc = "parse"
  BY PathFrame DEF TypeInv, Parse, history, At
<1>2. ProcOk(proc[p]) /\ proc[p].file \in Files /\ proc[p].buffer = <<>>
  BY <1>1 DEF ProcsOk, ProcOk, ProcType
<1>3. data[proc[p].file] \in Seq(Entries)
  BY <1>2 DEF TypeInv, FilesOk
<1>4. PICK s \in Seq(Entries) : s = Whole(data[proc[p].file]) /\ Len(s) <= Len(data[proc[p].file])
  BY <1>3, WholeIsSeq
<1>5. proc' = [proc EXCEPT ![p].pc = "append", ![p].map = Range(s), ![p].written = Len(s)]
  BY <1>4 DEF Parse
<1>6. /\ proc' \in [Processes -> ProcType] /\ \A q \in Processes \ {p} : proc'[q] = proc[q]
      /\ proc'[p].pc = "append"
      /\ proc'[p].items = proc[p].items /\ proc'[p].library = proc[p].library
      /\ proc'[p].attempted = proc[p].attempted /\ proc'[p].file = proc[p].file
      /\ proc'[p].written = Len(s) /\ proc'[p].buffer = proc[p].buffer
      /\ proc'[p].created = proc[p].created /\ proc'[p].setup = proc[p].setup
  BY <1>1, <1>5, ParseFields
<1>7. BufferOk(proc[p])'
  BY <1>2, <1>6 DEF BufferOk
<1>8. proc'[p].written <= Len(data'[proc'[p].file])
  BY <1>1, <1>4, <1>6
<1>9. ProcOk(proc[p])'
  BY <1>1, <1>2, <1>6, <1>7, <1>8 DEF ProcOk
<1> QED BY <1>1, <1>6, <1>9, ActorType

LEMMA MergeEntryType ==
  ASSUME TypeInv, NEW p \in Processes, MergeEntry(p)
  PROVE  TypeInv'
<1> DEFINE e == Head(proc[p].write_map)
           b == proc[p].buffer
<1>1. /\ UNCHANGED <<path, data, build, promised, lost, disturbed>>
      /\ PathOk' /\ ProcsOk /\ proc[p].pc = "append" /\ proc[p].write_map # <<>>
      /\ proc' = [proc EXCEPT ![p].write_map = Tail(@), ![p].map = @ \cup {Head(proc[p].write_map)},
                              ![p].buffer = IF Head(proc[p].write_map) \in proc[p].map THEN @
                                            ELSE Append(@, Head(proc[p].write_map))]
  BY PathFrame DEF TypeInv, MergeEntry, history, At
<1>2. /\ proc' \in [Processes -> ProcType] /\ \A q \in Processes \ {p} : proc'[q] = proc[q]
      /\ proc'[p].pc = proc[p].pc
      /\ proc'[p].items = proc[p].items /\ proc'[p].library = proc[p].library
      /\ proc'[p].attempted = proc[p].attempted /\ proc'[p].file = proc[p].file
      /\ proc'[p].written = proc[p].written
      /\ proc'[p].buffer = IF e \in proc[p].map THEN b ELSE Append(b, e)
      /\ proc'[p].created = proc[p].created /\ proc'[p].setup = proc[p].setup
  BY <1>1, MergeEntryFields
<1>3. ProcOk(proc[p]) /\ proc[p] \in ProcType
  BY <1>1 DEF ProcsOk
<1>4. e \in Links /\ b \in Seq(Entries)
  <2>1. proc[p].write_map \in Seq(Links) /\ proc[p].buffer \in Seq(Entries)
    BY <1>3 DEF ProcType
  <2> QED BY <1>1, <2>1
<1>5. Headers' = Headers
  BY <1>1 DEF Headers
<1>6. BufferOk(proc[p])'
  <2>1. CASE e \in proc[p].map
    BY <1>1, <1>2, <2>1, BufferFrame
  <2>2. CASE e \notin proc[p].map
    <3>1. e \in Entries
      BY <1>4 DEF Entries
    <3> HIDE DEF e, b
    <3>2. /\ Append(b, e) \in Seq(Entries) /\ Len(Append(b, e)) = Len(b) + 1
          /\ \A k \in 1 .. Len(b) : Append(b, e)[k] = b[k]
          /\ Append(b, e)[Len(b) + 1] = e
      BY <1>4, <3>1, AppendFacts
    <3>3. DOMAIN Append(b, e) = 1 .. Len(b) + 1 /\ Len(b) \in Nat /\ DOMAIN b = 1 .. Len(b)
      BY <1>4, <3>2, SeqFacts
    <3>4. \A k \in DOMAIN b : b[k] \in Links \/ (k = 1 /\ proc[p].written = 0 /\ b[k] \in Headers)
      BY <1>3 DEF ProcOk, BufferOk, b
    <3>5. proc'[p].buffer = Append(b, e) /\ proc'[p].written = proc[p].written
      BY <1>2, <2>2
    <3>6. ASSUME NEW k \in DOMAIN Append(b, e)
          PROVE  \/ Append(b, e)[k] \in Links
                 \/ k = 1 /\ proc[p].written = 0 /\ Append(b, e)[k] \in Headers
      <4>1. CASE k \in 1 .. Len(b)
        BY <3>2, <3>3, <3>4, <4>1
      <4>2. CASE k \notin 1 .. Len(b)
        <5>1. k = Len(b) + 1
          BY <3>3, <4>2
        <5> QED BY <1>4, <3>2, <5>1
      <4> QED BY <4>1, <4>2
    <3> QED BY <1>5, <3>5, <3>6 DEF BufferOk
  <2> QED BY <2>1, <2>2
<1>7. ProcOk(proc[p])'
  BY <1>1, <1>2, <1>3, <1>6 DEF ProcOk
<1> QED BY <1>1, <1>2, <1>7, ActorType

\* The archive is closed, and goes to its place.
LEMMA CloseType ==
  ASSUME TypeInv, NEW p \in Processes, Merge(p) \/ CancelMerge(p)
  PROVE  TypeInv'
<1>1. PICK x \in {"replace", "put_back"} : Close(p, x)
  BY DEF Merge, CancelMerge
<1>2. /\ UNCHANGED <<path, build, promised, lost, disturbed>> /\ ProcsOk
      /\ proc[p].pc \in {"parse", "append"} /\ x \in Stages
      /\ data' = Written(p, proc[p].buffer)
  BY <1>1 DEF TypeInv, Merge, CancelMerge, Close, history, At, Stages
<1>3. /\ proc' \in [Processes -> ProcType] /\ \A q \in Processes \ {p} : proc'[q] = proc[q]
      /\ proc'[p].pc = x
      /\ proc'[p].items = proc[p].items /\ proc'[p].library = proc[p].library
      /\ proc'[p].attempted = proc[p].attempted /\ proc'[p].file = None
      /\ proc'[p].written = 0 /\ proc'[p].buffer = <<>>
      /\ proc'[p].created = proc[p].created /\ proc'[p].setup = proc[p].setup
  BY <1>1, <1>2, CloseFields
<1>4. ProcOk(proc[p])
  BY <1>2 DEF ProcsOk
<1>5. BufferOk(proc[p])'
  BY <1>3 DEF BufferOk
<1>6. ProcOk(proc[p])'
  BY <1>2, <1>3, <1>4, <1>5 DEF ProcOk
<1>7. proc[p].file # None
  BY <1>2, <1>4 DEF ProcOk
<1>8. /\ data' = Written(p, Flushed(p, Len(proc[p].buffer), <<>>))
      /\ Len(proc[p].buffer) \in 0 .. Len(proc[p].buffer) /\ <<>> \in Torns
  BY <1>2, AllFlushed DEF Torns
<1>9. promised' \in SUBSET Pipelines
  BY <1>2 DEF TypeInv
<1> QED BY <1>2, <1>3, <1>6, <1>7, <1>8, <1>9, WrittenType

\* What is in a part of an archive.
LEMMA LoadedFacts ==
  ASSUME TypeInv, NEW s \in Seq(Links), NEW n \in 0 .. Len(s)
  PROVE  Range(SubSeq(s, 1, n)) \in SUBSET Links
<1>1. SubSeq(s, 1, n) \in Seq(Links)
  BY PrefixFacts
<1> QED BY <1>1, SeqFacts

\* The entries that are read of the archive with the name n, after the header.
Loaded(n) ==
  IF path[n] = None \/ ~IsValid(data[path[n]]) THEN <<>> ELSE Tail(Whole(data[path[n]]))

LEMMA LoadedIsSeq ==
  ASSUME TypeInv, NEW n \in Names
  PROVE  /\ Loaded(n) \in Seq(Links)
         /\ IF path[n] # None /\ IsValid(data[path[n]])
            THEN Loaded(n) = Tail(Archive(n)) ELSE Loaded(n) = <<>> /\ Archive(n) = <<>>
<1>1. CASE path[n] # None /\ IsValid(data[path[n]])
  <2>1. path[n] \in Files
    BY <1>1 DEF TypeInv, PathOk
  <2>2. data[path[n]] \in Seq(Entries) /\ DataOk(data[path[n]]) /\ build \in 1 .. MaxBuilds
    BY <2>1 DEF TypeInv, FilesOk
  <2>3. Tail(Readable(data[path[n]])) \in Seq(Links)
    BY <1>1, <2>2, ReadableFacts
  <2>4. Loaded(n) = Tail(Archive(n)) /\ Archive(n) = Readable(data[path[n]])
    BY <1>1 DEF Loaded, Archive, Readable
  <2> QED BY <1>1, <2>3, <2>4
<1>2. CASE ~(path[n] # None /\ IsValid(data[path[n]]))
  <2>1. Loaded(n) = <<>> /\ Archive(n) = <<>>
    BY <1>2 DEF Loaded, Archive, Readable
  <2> QED BY <1>2, <2>1
<1> QED BY <1>1, <1>2

LEMMA LoadType ==
  ASSUME TypeInv, NEW p \in Processes, Load(p)
  PROVE  TypeInv'
<1>1. /\ UNCHANGED <<path, data, build, promised, lost, disturbed>>
      /\ PathOk' /\ ProcsOk /\ proc[p].pc = "load" /\ "read" \in Names
  BY PathFrame DEF TypeInv, Load, history, At, Names
<1>2. Loaded("read") \in Seq(Links)
  BY <1>1, LoadedIsSeq
<1>3. PICK n \in (IF proc[p].closing THEN 0 ELSE Len(Loaded("read"))) .. Len(Loaded("read")) :
         proc' = [proc EXCEPT ![p].pc = "loop", ![p].setup = ~proc[p].closing,
                              ![p].library = Range(SubSeq(Loaded("read"), 1, n))]
  BY Zenon DEF Load, Loaded
<1>4. n \in 0 .. Len(Loaded("read"))
  BY <1>2, SeqFacts
<1>5. Range(SubSeq(Loaded("read"), 1, n)) \in SUBSET Links
  BY <1>2, <1>4, LoadedFacts
<1>6. /\ proc' \in [Processes -> ProcType] /\ \A q \in Processes \ {p} : proc'[q] = proc[q]
      /\ proc'[p].pc = "loop" /\ proc'[p].items = proc[p].items
      /\ proc'[p].library = Range(SubSeq(Loaded("read"), 1, n))
      /\ proc'[p].attempted = proc[p].attempted /\ proc'[p].file = proc[p].file
      /\ proc'[p].written = proc[p].written /\ proc'[p].buffer = proc[p].buffer
      /\ proc'[p].created = proc[p].created
  BY <1>1, <1>3, <1>5, LoadFields
<1>7. ProcOk(proc[p]) /\ BufferOk(proc[p])'
  BY <1>1, <1>6, BufferFrame DEF ProcsOk
<1>8. ProcOk(proc[p])'
  BY <1>1, <1>6, <1>7 DEF ProcOk
<1> QED BY <1>1, <1>6, <1>8, ActorType

LEMMA AddedFacts ==
  ASSUME TypeInv, NEW p \in Processes, Saved(p) \in Seq(Links)
  PROVE  /\ Saved(p) \in Seq(Entries)
         /\ Opens(p) => Added(p) = <<Header(build)>> \o Saved(p)
         /\ ~Opens(p) => Added(p) = Saved(p)
<1> DEFINE s == Saved(p)
<1>1. s \in Seq(Entries)
  <2>1. \A k \in 1 .. Len(s) : s[k] \in Entries
    BY SeqFacts DEF Entries
  <2> QED BY <2>1, SeqRetyped
<1>2. <<>> \o s = s
  BY <1>1
<1> QED BY <1>1, <1>2 DEF Added

\* A sequence of links behind a buffer, or behind the header of a new file.
LEMMA BufferGrows ==
  ASSUME NEW b \in Seq(Entries), NEW s \in Seq(Entries), NEW w,
         \A k \in 1 .. Len(s) : s[k] \in Links,
         \A k \in 1 .. Len(b) : b[k] \in Links \/ (k = 1 /\ w = 0 /\ b[k] \in Headers)
  PROVE  \A k \in DOMAIN (b \o s) :
           (b \o s)[k] \in Links \/ (k = 1 /\ w = 0 /\ (b \o s)[k] \in Headers)
<1> DEFINE c == b \o s
<1>1. /\ c \in Seq(Entries) /\ Len(c) = Len(b) + Len(s)
      /\ \A k \in 1 .. Len(b) : c[k] = b[k]
      /\ \A k \in 1 .. Len(s) : c[Len(b) + k] = s[k]
  BY ConcatFacts
<1>2. Len(b) \in Nat /\ Len(s) \in Nat
  BY SeqFacts
<1>3. DOMAIN c = 1 .. Len(b) + Len(s)
  BY <1>1, SeqFacts
<1> HIDE DEF c
<1>4. ASSUME NEW k \in DOMAIN c
      PROVE  c[k] \in Links \/ (k = 1 /\ w = 0 /\ c[k] \in Headers)
  <2>1. CASE k \in 1 .. Len(b)
    BY <1>1, <2>1
  <2>2. CASE k \notin 1 .. Len(b)
    <3>1. PICK j \in Int : j = k - Len(b)
      BY <1>2, <1>3
    <3>2. j \in 1 .. Len(s) /\ k = Len(b) + j
      BY <1>2, <1>3, <2>2, <3>1
    <3> QED BY <1>1, <3>2
  <2> QED BY <2>1, <2>2
<1> QED BY <1>4 DEF c

LEMMA SaveType ==
  ASSUME TypeInv, NEW p \in Processes, Save(p)
  PROVE  TypeInv'
<1> DEFINE x == Head(proc[p].items)
<1>1. /\ proc[p].pc = "loop" /\ proc[p].items # <<>>
      /\ x \in Pipelines /\ Saved(p) \in Seq(Links) /\ Added(p) \in Seq(Entries)
      /\ Target(p) \in Files \cup {None}
      /\ path' = IF Opens(p) THEN [path EXCEPT !["write"] = FreeFile] ELSE path
      /\ data' = IF Opens(p) THEN [data EXCEPT ![FreeFile] = <<>>] ELSE data
      /\ UNCHANGED <<build, promised, lost, disturbed>>
  BY SaveFields
<1>2. /\ proc' \in [Processes -> ProcType] /\ \A q \in Processes \ {p} : proc'[q] = proc[q]
      /\ proc'[p].pc = "loop"
      /\ proc'[p].items = Tail(proc[p].items) /\ proc'[p].library = proc[p].library \cup Range(Saved(p))
      /\ proc'[p].attempted = (proc[p].attempted \/ First(p)) /\ proc'[p].file = Target(p)
      /\ proc'[p].written = proc[p].written
      /\ proc'[p].buffer = IF Target(p) = None THEN proc[p].buffer ELSE proc[p].buffer \o Added(p)
      /\ proc'[p].created = proc[p].created /\ proc'[p].setup = proc[p].setup
  BY SaveFields
<1>3. ProcOk(proc[p]) /\ proc[p] \in ProcType /\ ProcsOk /\ FilesOk /\ PathOk
  BY DEF TypeInv, ProcsOk
<1>4. Headers' = Headers
  BY <1>1 DEF Headers
<1>5. Opens(p) => /\ proc[p].file = None /\ proc[p].written = 0 /\ proc[p].buffer = <<>>
                  /\ FreeFile \in Files /\ FreeFile # None /\ Target(p) = FreeFile
                  /\ \A n \in Names : path[n] # FreeFile
                  /\ \A q \in Processes : proc[q].file # FreeFile
  <2> SUFFICES ASSUME Opens(p)
               PROVE  /\ proc[p].file = None /\ proc[p].written = 0 /\ proc[p].buffer = <<>>
                      /\ FreeFile \in Files /\ FreeFile # None /\ Target(p) = FreeFile
                      /\ \A n \in Names : path[n] # FreeFile
                      /\ \A q \in Processes : proc[q].file # FreeFile
    OBVIOUS
  <2>1. ~proc[p].attempted /\ path["write"] = None
    BY DEF Opens, First
  <2>2. proc[p].file = None
    BY <1>1, <1>3, <2>1 DEF ProcOk
  <2>3. proc[p].written = 0 /\ proc[p].buffer = <<>>
    BY <1>3, <2>2 DEF ProcOk
  <2>4. /\ FreeFile \in Files /\ FreeFile # None
        /\ \A n \in Names : path[n] # FreeFile
        /\ \A q \in Processes : proc[q].file # FreeFile
    BY <2>1, FreeFileFacts
  <2> QED BY <2>2, <2>3, <2>4 DEF Target
<1>6. ~Opens(p) => Target(p) = proc[p].file /\ UNCHANGED <<path, data>>
  BY <1>1 DEF Target
<1>7. PathOk'
  <2>1. CASE Opens(p)
    <3>1. path' = [path EXCEPT !["write"] = FreeFile]
      BY <1>1, <2>1
    <3>2. path' \in [Names -> Files \cup {None}]
      BY <1>3, <1>5, <2>1, <3>1 DEF PathOk
    <3>3. path'["write"] = FreeFile /\ \A n \in Names : n # "write" => path'[n] = path[n]
      BY <1>3, <3>1 DEF PathOk, Names
    <3>4. ASSUME NEW m \in Names, NEW n \in Names, m # n, path'[m] # None
          PROVE  path'[m] # path'[n]
      <4>1. CASE m = "write"
        BY <1>5, <2>1, <3>3, <3>4, <4>1
      <4>2. CASE n = "write"
        BY <1>5, <2>1, <3>3, <3>4, <4>2
      <4>3. CASE m # "write" /\ n # "write"
        BY <1>3, <3>3, <3>4, <4>3 DEF PathOk
      <4> QED BY <4>1, <4>2, <4>3
    <3> QED BY <3>2, <3>4 DEF PathOk
  <2>2. CASE ~Opens(p)
    BY <1>3, <1>6, <2>2, PathFrame
  <2> QED BY <2>1, <2>2
<1>8. FilesOk' /\ \A q \in Processes : proc[q].file # None => data'[proc[q].file] = data[proc[q].file]
  <2>1. CASE Opens(p)
    <3>1. data' = [data EXCEPT ![FreeFile] = <<>>]
      BY <1>1, <2>1
    <3>2. data' \in [Files -> Seq(Entries)]
      <4>1. <<>> \in Seq(Entries)
        OBVIOUS
      <4> QED BY <1>3, <3>1, <4>1 DEF FilesOk
    <3>3. ASSUME NEW f \in Files  PROVE DataOk(data[f])'
      <4>1. CASE f = FreeFile
        <5>1. data'[f] = <<>> /\ DOMAIN <<>> = {}
          BY <1>3, <3>1, <4>1 DEF FilesOk
        <5> QED BY <5>1 DEF DataOk
      <4>2. CASE f # FreeFile
        <5>1. data'[f] = data[f] /\ DataOk(data[f])
          BY <1>3, <3>1, <4>2 DEF FilesOk
        <5> QED BY <1>4, <5>1 DEF DataOk
      <4> QED BY <4>1, <4>2
    <3>4. \A q \in Processes : proc[q].file # None => data'[proc[q].file] = data[proc[q].file]
      <4> TAKE q \in Processes
      <4> HAVE proc[q].file # None
      <4>1. proc[q].file \in Files /\ proc[q].file # FreeFile
        BY <1>3, <1>5, <2>1 DEF ProcsOk, ProcType
      <4> QED BY <1>3, <3>1, <4>1 DEF FilesOk
    <3> QED BY <3>2, <3>3, <3>4 DEF FilesOk
  <2>2. CASE ~Opens(p)
    <3>1. data' = data /\ build' \in build .. MaxBuilds
      BY <1>1, <1>6, <2>2 DEF TypeInv
    <3> QED BY <3>1, FilesFrame
  <2> QED BY <2>1, <2>2
<1>9. /\ Range(proc'[p].items) \subseteq proc'[p].created
      /\ proc'[p].created \subseteq Range(proc'[p].items) \cup proc'[p].library
  <2>1. proc[p].items \in Seq(Pipelines)
    BY <1>3 DEF ProcType
  <2>2. Range(proc[p].items) = {x} \cup Range(Tail(proc[p].items))
    BY <1>1, <2>1, TailFacts
  <2>3. x \in proc[p].library \cup Range(Saved(p))
    BY <1>1, <1>3, BlobsFacts DEF Saved, ProcType
  <2>4. Range(proc[p].items) \subseteq proc[p].created
        /\ proc[p].created \subseteq Range(proc[p].items) \cup proc[p].library
    BY <1>3 DEF ProcOk
  <2> QED BY <1>2, <2>2, <2>3, <2>4
<1>10. BufferOk(proc[p])'
  <2> DEFINE b == proc[p].buffer
             s == Saved(p)
  <2>1. b \in Seq(Entries) /\ BufferOk(proc[p])
    BY <1>3 DEF ProcType, ProcOk
  <2>2. s \in Seq(Entries) /\ \A k \in 1 .. Len(s) : s[k] \in Links
    BY <1>1, AddedFacts, SeqFacts
  <2>3. \A k \in 1 .. Len(b) : b[k] \in Links \/ (k = 1 /\ proc[p].written = 0 /\ b[k] \in Headers)
    BY <2>1, SeqFacts DEF BufferOk
  <2>4. CASE Target(p) = None
    BY <1>1, <1>2, <2>4, BufferFrame
  <2>5. CASE Target(p) # None /\ ~Opens(p)
    <3>1. proc'[p].buffer = b \o s /\ proc'[p].written = proc[p].written
      BY <1>1, <1>2, <2>5, AddedFacts
    <3> HIDE DEF b, s
    <3>2. \A k \in DOMAIN (b \o s) :
            (b \o s)[k] \in Links \/ (k = 1 /\ proc[p].written = 0 /\ (b \o s)[k] \in Headers)
      BY <2>1, <2>2, <2>3, BufferGrows
    <3> QED BY <1>4, <3>1, <3>2 DEF BufferOk
  <2>6. CASE Opens(p)
    <3> DEFINE h == <<Header(build)>>
    <3>1. Header(build) \in Entries /\ Header(build) \in Headers
      BY DEF Entries, Headers, TypeInv
    <3>2. h \in Seq(Entries) /\ Len(h) = 1 /\ h[1] = Header(build)
      BY <3>1, SingleFacts
    <3>3. proc'[p].buffer = <<>> \o Added(p) /\ proc'[p].written = 0 /\ Added(p) = h \o s
      BY <1>1, <1>2, <1>5, <2>6, AddedFacts
    <3>4. <<>> \o Added(p) = Added(p)
      BY <1>1
    <3> HIDE DEF h, s
    <3>5. \A k \in 1 .. Len(h) : h[k] \in Links \/ (k = 1 /\ 0 = 0 /\ h[k] \in Headers)
      BY <3>1, <3>2
    <3>6. \A k \in DOMAIN (h \o s) :
            (h \o s)[k] \in Links \/ (k = 1 /\ 0 = 0 /\ (h \o s)[k] \in Headers)
      BY <2>2, <3>2, <3>5, BufferGrows
    <3>7. proc'[p].buffer = h \o s
      BY <3>3, <3>4
    <3> QED BY <1>4, <3>3, <3>6, <3>7 DEF BufferOk
  <2> QED BY <2>4, <2>5, <2>6
<1>11. proc'[p].file # None => proc'[p].written <= Len(data'[proc'[p].file])
  <2>1. CASE Opens(p)
    <3>1. data'[FreeFile] = <<>>
      BY <1>1, <1>3, <1>5, <2>1 DEF FilesOk
    <3>2. Len(<<>>) = 0
      OBVIOUS
    <3> QED BY <1>2, <1>5, <2>1, <3>1, <3>2
  <2>2. CASE ~Opens(p)
    BY <1>2, <1>3, <1>6, <2>2 DEF ProcOk
  <2> QED BY <2>1, <2>2
<1>12. /\ proc'[p].file = None => proc'[p].written = 0 /\ proc'[p].buffer = <<>>
       /\ ~proc'[p].attempted => proc'[p].file = None
  BY <1>1, <1>2, <1>3, <1>5, <1>6 DEF ProcOk, Opens
<1>13. ProcOk(proc[p])'
  BY <1>2, <1>9, <1>10, <1>11, <1>12 DEF ProcOk
<1>14. \A q \in Processes \ {p} :
         proc[q].file # None => Len(data'[proc[q].file]) >= Len(data[proc[q].file])
  <2> TAKE q \in Processes \ {p}
  <2> HAVE proc[q].file # None
  <2>1. proc[q].file \in Files
    BY <1>3 DEF ProcsOk, ProcType
  <2>2. Len(data[proc[q].file]) \in Nat
    BY <1>3, <2>1 DEF FilesOk
  <2> QED BY <1>8, <2>2
<1>15. ProcsOk'
  <2>1. build' \in build .. MaxBuilds /\ data' \in [Files -> Seq(Entries)]
    BY <1>1, <1>8 DEF TypeInv, FilesOk
  <2> QED BY <1>2, <1>13, <1>14, <2>1, ProcsFrame
<1> QED BY <1>1, <1>7, <1>8, <1>15 DEF TypeInv

LEMMA WriteBufferSteps ==
  ASSUME NEW p \in Processes, WriteBuffer(p)
  PROVE  \E n \in 0 .. Len(proc[p].buffer) : \E t \in Torns :
           /\ proc[p].pc \in {"append", "loop"} /\ proc[p].buffer # <<>>
           /\ data' = Written(p, Flushed(p, n, t))
           /\ proc' = [proc EXCEPT ![p].written = @ + n,
                                   ![p].buffer = SubSeq(@, n + 1, Len(@))]
           /\ UNCHANGED <<path, build, promised, lost, disturbed>>
  BY DEF WriteBuffer, Flushed, Torns, history

LEMMA WriteBufferType ==
  ASSUME TypeInv, NEW p \in Processes, WriteBuffer(p)
  PROVE  TypeInv'
<1>1. PICK n \in 0 .. Len(proc[p].buffer), t \in Torns :
           /\ proc[p].pc \in {"append", "loop"} /\ proc[p].buffer # <<>>
           /\ data' = Written(p, Flushed(p, n, t))
           /\ proc' = [proc EXCEPT ![p].written = @ + n,
                                   ![p].buffer = SubSeq(@, n + 1, Len(@))]
           /\ UNCHANGED <<path, build, promised, lost, disturbed>>
  BY WriteBufferSteps
<1>2. ProcOk(proc[p]) /\ proc[p] \in ProcType /\ promised' \in SUBSET Pipelines
  BY <1>1 DEF TypeInv, ProcsOk
<1>3. proc[p].file # None
  BY <1>1, <1>2 DEF ProcOk
<1>4. /\ proc' \in [Processes -> ProcType] /\ \A q \in Processes \ {p} : proc'[q] = proc[q]
      /\ proc'[p].pc = proc[p].pc
      /\ proc'[p].items = proc[p].items /\ proc'[p].library = proc[p].library
      /\ proc'[p].attempted = proc[p].attempted /\ proc'[p].file = proc[p].file
      /\ proc'[p].written = proc[p].written + n
      /\ proc'[p].buffer = SubSeq(proc[p].buffer, n + 1, Len(proc[p].buffer))
      /\ proc'[p].created = proc[p].created /\ proc'[p].setup = proc[p].setup
  BY <1>1, WriteBufferFields
<1>5. Len(data'[proc[p].file]) >= proc[p].written + n
  BY <1>1, <1>3, WrittenFacts
<1>6. proc'[p].written <= Len(data'[proc'[p].file])
  <2>1. proc[p].file \in Files /\ data' \in [Files -> Seq(Entries)]
    BY <1>1, <1>3, WrittenFacts
  <2>2. Len(data'[proc[p].file]) \in Nat
    BY <2>1
  <2> QED BY <1>2, <1>4, <1>5, <2>2 DEF ProcType
<1>7. BufferOk(proc[p])'
  <2> DEFINE b == proc[p].buffer
             c == SubSeq(b, n + 1, Len(b))
  <2>1. b \in Seq(Entries) /\ proc[p].written \in Nat
    BY <1>2 DEF ProcType
  <2>2. \A k \in DOMAIN b : b[k] \in Links \/ (k = 1 /\ proc[p].written = 0 /\ b[k] \in Headers)
    BY <1>2 DEF ProcOk, BufferOk
  <2>3. n \in 0 .. Len(b)
    OBVIOUS
  <2> HIDE DEF b
  <2>4. c \in Seq(Entries) /\ Len(c) = Len(b) - n /\ \A k \in 1 .. Len(b) - n : c[k] = b[n + k]
    BY <2>1, <2>3, SuffixFacts
  <2>5. Len(b) \in Nat /\ DOMAIN b = 1 .. Len(b)
    BY <2>1, SeqFacts
  <2>6. DOMAIN c = 1 .. Len(b) - n
    BY <2>4, SeqFacts
  <2>7. proc'[p].buffer = c /\ proc'[p].written = proc[p].written + n
    BY <1>4 DEF b
  <2> HIDE DEF c
  <2>8. ASSUME NEW k \in DOMAIN c
        PROVE  c[k] \in Links \/ (k = 1 /\ proc[p].written + n = 0 /\ c[k] \in Headers)
    <3>1. n + k \in DOMAIN b /\ c[k] = b[n + k] /\ (n + k = 1 => n = 0 /\ k = 1)
      BY <2>3, <2>4, <2>5, <2>6
    <3>2. b[n + k] \in Links \/ (n + k = 1 /\ proc[p].written = 0 /\ b[n + k] \in Headers)
      BY <2>2, <3>1
    <3> QED BY <3>1, <3>2
  <2>9. Headers' = Headers
    BY <1>1 DEF Headers
  <2> QED BY <2>7, <2>8, <2>9 DEF BufferOk
<1>8. ProcOk(proc[p])'
  BY <1>1, <1>2, <1>3, <1>4, <1>6, <1>7 DEF ProcOk
<1> QED BY <1>1, <1>2, <1>3, <1>4, <1>8, WrittenType

LEMMA EndThreadType ==
  ASSUME TypeInv, NEW p \in Processes, EndThread(p)
  PROVE  TypeInv'
<1>1. /\ UNCHANGED <<path, build, lost, disturbed>> /\ ProcsOk /\ PathOk'
      /\ data' = IF proc[p].file = None THEN data ELSE Written(p, proc[p].buffer)
      /\ proc' = [proc EXCEPT ![p] = Off] /\ promised' = promised \cup Promise(p)
  BY PathFrame DEF TypeInv, EndThread
<1>2. /\ proc' \in [Processes -> ProcType] /\ proc'[p] = Off
      /\ \A q \in Processes \ {p} : proc'[q] = proc[q]
  BY <1>1, OffFields
<1>3. ProcOk(proc[p])'
  BY <1>1, OffFields
<1>4. promised' \in SUBSET Pipelines
  BY <1>1 DEF TypeInv, Promise, ProcsOk, ProcType
<1>5. CASE proc[p].file = None
  <2>1. UNCHANGED data /\ build' \in build .. MaxBuilds
    BY <1>1, <1>5 DEF TypeInv
  <2>2. FilesOk' /\ data' \in [Files -> Seq(Entries)]
    BY <2>1, FilesFrame DEF FilesOk
  <2>3. \A q \in Processes \ {p} :
          proc[q].file # None => Len(data'[proc[q].file]) >= Len(data[proc[q].file])
    <3> TAKE q \in Processes \ {p}
    <3> HAVE proc[q].file # None
    <3>1. proc[q].file \in Files
      BY <1>1 DEF ProcsOk, ProcType
    <3>2. Len(data[proc[q].file]) \in Nat
      BY <3>1 DEF TypeInv, FilesOk
    <3> QED BY <2>1, <3>2
  <2>4. ProcsOk'
    BY <1>2, <1>3, <2>1, <2>2, <2>3, ProcsFrame
  <2> QED BY <1>1, <1>4, <2>2, <2>4 DEF TypeInv
<1>6. CASE proc[p].file # None
  <2>1. /\ data' = Written(p, Flushed(p, Len(proc[p].buffer), <<>>))
        /\ Len(proc[p].buffer) \in 0 .. Len(proc[p].buffer) /\ <<>> \in Torns
    BY <1>1, <1>6, AllFlushed DEF Torns
  <2>2. \A q \in Processes \ {p} : proc'[q] = proc[q]
    BY <1>2
  <2> QED BY <1>1, <1>2, <1>3, <1>4, <1>6, <2>1, <2>2, WrittenType
<1> QED BY <1>5, <1>6

LEMMA CrashType ==
  ASSUME TypeInv, NEW p \in Processes, Crash(p)
  PROVE  TypeInv'
<1>1. /\ UNCHANGED <<path, data, build>> /\ ProcsOk /\ PathOk'
      /\ proc' = [proc EXCEPT ![p] = Off]
      /\ promised' \in SUBSET promised /\ disturbed' \in BOOLEAN
  BY PathFrame DEF TypeInv, Crash
<1>2. /\ proc' \in [Processes -> ProcType]
      /\ \A q \in Processes \ {p} : proc'[q] = proc[q]
  BY <1>1, OffFields
<1>3. ProcOk(proc[p])'
  BY <1>1, OffFields
<1>4. UNCHANGED data /\ build' \in build .. MaxBuilds
  BY <1>1 DEF TypeInv
<1>5. FilesOk' /\ data' \in [Files -> Seq(Entries)]
  BY <1>4, FilesFrame DEF FilesOk
<1>6. \A q \in Processes \ {p} :
        proc[q].file # None => Len(data'[proc[q].file]) >= Len(data[proc[q].file])
  <2> TAKE q \in Processes \ {p}
  <2> HAVE proc[q].file # None
  <2>1. proc[q].file \in Files
    BY <1>1 DEF ProcsOk, ProcType
  <2>2. Len(data[proc[q].file]) \in Nat
    BY <2>1 DEF TypeInv, FilesOk
  <2> QED BY <1>4, <2>2
<1>7. ProcsOk'
  BY <1>2, <1>3, <1>4, <1>5, <1>6, ProcsFrame
<1> QED BY <1>1, <1>5, <1>7 DEF TypeInv

LEMMA UpgradeType ==
  ASSUME TypeInv, Upgrade
  PROVE  TypeInv'
<1>1. /\ UNCHANGED <<path, data, proc, lost, disturbed>> /\ ProcsOk /\ PathOk' /\ FilesOk
      /\ build' = build + 1 /\ build < MaxBuilds /\ promised' = {}
      /\ \A q \in Processes : proc[q].pc = "off"
  BY PathFrame DEF TypeInv, Upgrade, Running
<1>2. build' \in build .. MaxBuilds /\ build' \in 1 .. MaxBuilds
  BY <1>1, CacheAssumption DEF TypeInv
<1>3. FilesOk' /\ data' \in [Files -> Seq(Entries)]
  BY <1>1, <1>2, FilesFrame DEF FilesOk
<1>4. ASSUME NEW q \in Processes  PROVE ProcOk(proc[q])'
  <2>1. proc'[q] = proc[q]
    BY <1>1
  <2>2. proc[q].file # None => Len(data'[proc[q].file]) >= Len(data[proc[q].file])
    <3> HAVE proc[q].file # None
    <3>1. proc[q].file \in Files
      BY <1>1 DEF ProcsOk, ProcType
    <3>2. Len(data[proc[q].file]) \in Nat
      BY <1>1, <3>1 DEF FilesOk
    <3> QED BY <1>1, <3>2
  <2> QED BY <1>2, <1>3, <2>1, <2>2, ProcFrame
<1>5. ProcsOk'
  BY <1>1, <1>4 DEF ProcsOk
<1> QED BY <1>1, <1>2, <1>3, <1>5 DEF TypeInv

LEMMA TypeStep ==
  ASSUME TypeInv, [Next]_vars
  PROVE  TypeInv'
<1>1. CASE Upgrade
  BY <1>1, UpgradeType
<1>2. ASSUME NEW p \in Processes, Start(p)  PROVE TypeInv'
  BY <1>2, StartType
<1>3. ASSUME NEW p \in Processes, FlushDiskCache(p)  PROVE TypeInv'
  BY <1>3, FlushDiskCacheType
<1>4. ASSUME NEW p \in Processes, Crash(p)  PROVE TypeInv'
  BY <1>4, CrashType
<1>5. ASSUME NEW p \in Processes, DiskThread(p)  PROVE TypeInv'
  <2>1. \/ GoesOn(p) \/ MapWrite(p) \/ OpenMerge(p) \/ Parse(p) \/ MergeEntry(p)
        \/ Merge(p) \/ CancelMerge(p) \/ Load(p) \/ Save(p) \/ WriteBuffer(p) \/ EndThread(p)
    BY <1>5 DEF DiskThread, GoesOn
  <2> QED BY <2>1, GoesOnType, MapWriteType, OpenMergeType, ParseType, MergeEntryType, CloseType,
             LoadType, SaveType, WriteBufferType, EndThreadType
<1>6. ASSUME NEW p \in Processes, NEW x \in Pipelines, CreatePipeline(p, x)  PROVE TypeInv'
  BY <1>6, CreatePipelineType
<1>7. CASE UNCHANGED vars
  <2>1. UNCHANGED <<path, data, proc, build, promised, lost, disturbed>>
    BY <1>7 DEF vars
  <2>2. FilesOk' /\ PathOk'
    BY <2>1, FilesFrame, PathFrame DEF TypeInv
  <2>3. Headers' = Headers
    BY <2>1 DEF Headers
  <2>4. ProcsOk'
    BY <2>1, <2>3 DEF TypeInv, ProcsOk, ProcOk, BufferOk
  <2> QED BY <2>1, <2>2, <2>4 DEF TypeInv
<1> QED BY <1>1, <1>2, <1>3, <1>4, <1>5, <1>6, <1>7 DEF Next

-----------------------------------------------------------------------------
(* Who is alone.                                                           *)

\* The steps of a process that goes on running.
Works(p) ==
  \/ \E x \in Pipelines : CreatePipeline(p, x)
  \/ FlushDiskCache(p)
  \/ GoesOn(p) \/ MapWrite(p) \/ OpenMerge(p) \/ Parse(p) \/ MergeEntry(p)
  \/ Merge(p) \/ CancelMerge(p) \/ Load(p) \/ Save(p) \/ WriteBuffer(p)

Steady(p) ==
  /\ proc[p].pc # "off" /\ proc'[p].pc # "off" /\ proc'[p].alone = proc[p].alone
  /\ \A q \in Processes \ {p} : proc'[q] = proc[q]
  /\ UNCHANGED <<build, promised, lost, disturbed>>

LEMMA GoSteady ==
  ASSUME ProcsOk, NEW p \in Processes, NEW x \in Idle, proc[p].pc # "off", Go(p, x), UNCHANGED history
  PROVE  Steady(p)
<1>1. x \in Stages /\ x # "off"
  BY DEF Idle, Stages
<1>2. /\ proc'[p].pc = x /\ proc'[p].alone = proc[p].alone
      /\ \A q \in Processes \ {p} : proc'[q] = proc[q]
  BY <1>1, GoFacts
<1> QED BY <1>1, <1>2 DEF Steady, history

LEMMA GoesOnSteady ==
  ASSUME ProcsOk, NEW p \in Processes, GoesOn(p)
  PROVE  Steady(p)
<1>1. proc[p].pc # "off" /\ UNCHANGED history
  BY DEF GoesOn, Promote, TakeRead, DropRead, ReplaceRead, PutBack, Replace, DeleteWrite, DeleteMerge, At
<1>2. /\ "delete_write" \in Idle /\ "map_write" \in Idle /\ "open_merge" \in Idle
      /\ "replace_read" \in Idle /\ "load" \in Idle /\ "delete_merge" \in Idle
  BY DEF Idle
<1>3. \/ Go(p, "delete_write") \/ Go(p, "map_write") \/ Go(p, "open_merge")
      \/ Go(p, "replace_read") \/ Go(p, "load") \/ Go(p, "delete_merge")
  BY DEF GoesOn, Promote, TakeRead, DropRead, ReplaceRead, PutBack, Replace, DeleteWrite, DeleteMerge
<1> QED BY <1>1, <1>2, <1>3, GoSteady

LEMMA WorksSteady ==
  ASSUME TypeInv, NEW p \in Processes, Works(p)
  PROVE  Steady(p)
<1>1. ProcsOk /\ "delete_write" \in Idle /\ "drop_read" \in Idle
  BY DEF TypeInv, Idle
<1>2. ASSUME NEW x \in Pipelines, CreatePipeline(p, x)  PROVE Steady(p)
  <2>1. /\ proc' = [proc EXCEPT ![p].items = Append(@, x), ![p].created = @ \cup {x}]
        /\ proc[p].pc # "off" /\ UNCHANGED <<build, promised, lost, disturbed>>
    BY <1>2 DEF CreatePipeline, Running, history
  <2>2. /\ proc'[p].pc = proc[p].pc /\ proc'[p].alone = proc[p].alone
        /\ \A q \in Processes \ {p} : proc'[q] = proc[q]
    BY <1>1, <2>1, CreatePipelineFields
  <2> QED BY <2>1, <2>2 DEF Steady
<1>3. ASSUME FlushDiskCache(p)  PROVE Steady(p)
  <2>1. /\ proc' = [proc EXCEPT ![p].closing = TRUE]
        /\ proc[p].pc # "off" /\ UNCHANGED <<build, promised, lost, disturbed>>
    BY <1>3 DEF FlushDiskCache, Running, history
  <2>2. /\ proc'[p].pc = proc[p].pc /\ proc'[p].alone = proc[p].alone
        /\ \A q \in Processes \ {p} : proc'[q] = proc[q]
    BY <1>1, <2>1, FlushFields
  <2> QED BY <2>1, <2>2 DEF Steady
<1>4. ASSUME GoesOn(p)  PROVE Steady(p)
  BY <1>1, <1>4, GoesOnSteady
<1>5. ASSUME MapWrite(p)  PROVE Steady(p)
  <2> DEFINE f == path["write"]
  <2>1. proc[p].pc = "map_write" /\ UNCHANGED history /\ UNCHANGED <<build, promised, lost, disturbed>>
    BY <1>5 DEF MapWrite, At, history
  <2>2. CASE f # None /\ IsValid(data[f])
    <3>1. f \in Files
      BY <2>2 DEF TypeInv, PathOk, Names
    <3>2. data[f] \in Seq(Entries) /\ DataOk(data[f]) /\ build \in 1 .. MaxBuilds
      BY <3>1 DEF TypeInv, FilesOk
    <3> HIDE DEF f
    <3>3. Tail(Readable(data[f])) \in Seq(Links) /\ Readable(data[f]) = Whole(data[f])
      BY <2>2, <3>2, ReadableFacts DEF Readable
    <3>4. PICK s \in Seq(Links) : s = Tail(Whole(data[f]))
      BY <3>3
    <3>5. proc' = [proc EXCEPT ![p].pc = "take_read", ![p].write_map = s]
      BY <1>5, <2>2, <3>4 DEF MapWrite, f
    <3>6. /\ proc'[p].pc = "take_read" /\ proc'[p].alone = proc[p].alone
          /\ \A q \in Processes \ {p} : proc'[q] = proc[q]
      BY <1>1, <3>5, MapWriteFields
    <3> QED BY <2>1, <3>6 DEF Steady
  <2>3. CASE ~(f # None /\ IsValid(data[f]))
    <3>1. Go(p, "delete_write")
      BY <1>5, <2>3 DEF MapWrite
    <3>2. proc[p].pc # "off"
      BY <2>1
    <3> QED BY <1>1, <2>1, <3>1, <3>2, GoSteady
  <2> QED BY <2>2, <2>3
<1>6. ASSUME OpenMerge(p)  PROVE Steady(p)
  <2> DEFINE f == path["merge"]
  <2>1. proc[p].pc = "open_merge" /\ UNCHANGED history /\ UNCHANGED <<build, promised, lost, disturbed>>
    BY <1>6 DEF OpenMerge, At, history
  <2>2. CASE f # None /\ IsValid(data[f])
    <3>1. f \in Files
      BY <2>2 DEF TypeInv, PathOk, Names
    <3>2. proc' = [proc EXCEPT ![p].pc = "parse", ![p].file = f]
      BY <1>6, <2>2 DEF OpenMerge
    <3> HIDE DEF f
    <3>3. /\ proc'[p].pc = "parse" /\ proc'[p].alone = proc[p].alone
          /\ \A q \in Processes \ {p} : proc'[q] = proc[q]
      BY <1>1, <3>1, <3>2, OpenMergeFields
    <3> QED BY <2>1, <3>3 DEF Steady
  <2>3. CASE ~(f # None /\ IsValid(data[f]))
    <3>1. Go(p, "delete_write") \/ Go(p, "drop_read")
      BY <1>6, <2>3 DEF OpenMerge
    <3>2. proc[p].pc # "off"
      BY <2>1
    <3> QED BY <1>1, <2>1, <3>1, <3>2, GoSteady
  <2> QED BY <2>2, <2>3
<1>7. ASSUME Parse(p)  PROVE Steady(p)
  <2>1. proc[p].pc = "parse" /\ UNCHANGED <<build, promised, lost, disturbed>>
    BY <1>7 DEF Parse, At, history
  <2>2. ProcOk(proc[p]) /\ proc[p] \in ProcType
    BY <1>1 DEF ProcsOk
  <2>3. proc[p].file \in Files
    BY <2>1, <2>2 DEF ProcOk, ProcType
  <2>4. data[proc[p].file] \in Seq(Entries)
    BY <2>3 DEF TypeInv, FilesOk
  <2>5. PICK s \in Seq(Entries) : s = Whole(data[proc[p].file])
    BY <2>4, WholeIsSeq
  <2>6. proc' = [proc EXCEPT ![p].pc = "append", ![p].map = Range(s), ![p].written = Len(s)]
    BY <1>7, <2>5 DEF Parse
  <2>7. /\ proc'[p].pc = "append" /\ proc'[p].alone = proc[p].alone
        /\ \A q \in Processes \ {p} : proc'[q] = proc[q]
    BY <1>1, <2>6, ParseFields
  <2> QED BY <2>1, <2>7 DEF Steady
<1>8. ASSUME MergeEntry(p)  PROVE Steady(p)
  <2>1. /\ proc[p].pc = "append" /\ UNCHANGED <<build, promised, lost, disturbed>> /\ proc[p].write_map # <<>>
        /\ proc' = [proc EXCEPT ![p].write_map = Tail(@), ![p].map = @ \cup {Head(proc[p].write_map)},
                                ![p].buffer = IF Head(proc[p].write_map) \in proc[p].map THEN @
                                              ELSE Append(@, Head(proc[p].write_map))]
    BY <1>8 DEF MergeEntry, At, history
  <2>2. /\ proc'[p].pc = proc[p].pc /\ proc'[p].alone = proc[p].alone
        /\ \A q \in Processes \ {p} : proc'[q] = proc[q]
    BY <1>1, <2>1, MergeEntryFields
  <2> QED BY <2>1, <2>2 DEF Steady
<1>9. ASSUME Merge(p) \/ CancelMerge(p)  PROVE Steady(p)
  <2>1. PICK x \in {"replace", "put_back"} : Close(p, x)
    BY <1>9 DEF Merge, CancelMerge
  <2>2. /\ UNCHANGED <<build, promised, lost, disturbed>>
        /\ proc[p].pc # "off" /\ x \in Stages /\ x # "off"
    BY <1>9 DEF Merge, CancelMerge, history, At, Stages
  <2>3. /\ proc'[p].pc = x /\ proc'[p].alone = proc[p].alone
        /\ \A q \in Processes \ {p} : proc'[q] = proc[q]
    BY <1>1, <2>1, <2>2, CloseFields
  <2> QED BY <2>2, <2>3 DEF Steady
<1>10. ASSUME Load(p)  PROVE Steady(p)
  <2>1. proc[p].pc = "load" /\ UNCHANGED <<build, promised, lost, disturbed>> /\ "read" \in Names
    BY <1>10 DEF Load, At, history, Names
  <2>2. Loaded("read") \in Seq(Links)
    BY <2>1, LoadedIsSeq
  <2>3. PICK n \in (IF proc[p].closing THEN 0 ELSE Len(Loaded("read"))) .. Len(Loaded("read")) :
           proc' = [proc EXCEPT ![p].pc = "loop", ![p].setup = ~proc[p].closing,
                                ![p].library = Range(SubSeq(Loaded("read"), 1, n))]
    BY <1>10, Zenon DEF Load, Loaded
  <2>4. n \in 0 .. Len(Loaded("read"))
    BY <2>2, SeqFacts
  <2>5. Range(SubSeq(Loaded("read"), 1, n)) \in SUBSET Links
    BY <2>2, <2>4, LoadedFacts
  <2>6. /\ proc'[p].pc = "loop" /\ proc'[p].alone = proc[p].alone
        /\ \A q \in Processes \ {p} : proc'[q] = proc[q]
    BY <1>1, <2>3, <2>5, LoadFields
  <2> QED BY <2>1, <2>6 DEF Steady
<1>11. ASSUME Save(p)  PROVE Steady(p)
  <2>1. /\ proc[p].pc = "loop" /\ UNCHANGED <<build, promised, lost, disturbed>>
        /\ proc'[p].pc = "loop" /\ proc'[p].alone = proc[p].alone
        /\ \A q \in Processes \ {p} : proc'[q] = proc[q]
    BY <1>11, SaveFields
  <2> QED BY <2>1 DEF Steady
<1>12. ASSUME WriteBuffer(p)  PROVE Steady(p)
  <2>1. PICK n \in 0 .. Len(proc[p].buffer), t \in Torns :
           /\ proc[p].pc \in {"append", "loop"} /\ proc[p].buffer # <<>>
           /\ data' = Written(p, Flushed(p, n, t))
           /\ proc' = [proc EXCEPT ![p].written = @ + n,
                                   ![p].buffer = SubSeq(@, n + 1, Len(@))]
           /\ UNCHANGED <<path, build, promised, lost, disturbed>>
    BY <1>12, WriteBufferSteps
  <2>2. /\ proc'[p].pc = proc[p].pc /\ proc'[p].alone = proc[p].alone
        /\ \A q \in Processes \ {p} : proc'[q] = proc[q]
    BY <2>1, WriteBufferFields
  <2> QED BY <2>1, <2>2 DEF Steady
<1> QED BY <1>2, <1>3, <1>4, <1>5, <1>6, <1>7, <1>8, <1>9, <1>10, <1>11, <1>12 DEF Works

\* A process that ends or is killed was alone, or nothing was promised.
LEMMA NextCases ==
  ASSUME Next
  PROVE  Upgrade \/ \E p \in Processes : Start(p) \/ Works(p) \/ EndThread(p) \/ Crash(p)
  BY DEF Next, Works, DiskThread, GoesOn

LEMMA AloneStep ==
  ASSUME TypeInv, AloneInv, [Next]_vars
  PROVE  AloneInv'
<1>1. /\ \A p \in Processes : proc[p].alone => proc[p].pc # "off" /\ \A q \in Processes \ {p} : proc[q].pc = "off"
      /\ promised # {} \/ ~disturbed => \A p \in Processes : proc[p].pc # "off" => proc[p].alone
  BY DEF AloneInv, Running, Alone
<1>2. ProcsOk
  BY DEF TypeInv
<1>3. SUFFICES /\ \A p \in Processes : proc'[p].alone =>
                    proc'[p].pc # "off" /\ \A q \in Processes \ {p} : proc'[q].pc = "off"
               /\ promised' # {} \/ ~disturbed' => \A p \in Processes : proc'[p].pc # "off" => proc'[p].alone
  BY DEF AloneInv, Running, Alone
<1>4. CASE Upgrade
  BY <1>1, <1>4 DEF Upgrade, Running
<1>5. ASSUME NEW p \in Processes, Works(p)
      PROVE  /\ \A r \in Processes : proc'[r].alone =>
                  proc'[r].pc # "off" /\ \A q \in Processes \ {r} : proc'[q].pc = "off"
             /\ promised' # {} \/ ~disturbed' => \A r \in Processes : proc'[r].pc # "off" => proc'[r].alone
  <2>1. Steady(p)
    BY <1>5, WorksSteady
  <2>2. \A q \in Processes : proc'[q].alone = proc[q].alone /\ (proc'[q].pc # "off" <=> proc[q].pc # "off")
    BY <2>1 DEF Steady
  <2> QED BY <1>1, <2>1, <2>2 DEF Steady
<1>6. ASSUME NEW p \in Processes, Start(p)
      PROVE  /\ \A r \in Processes : proc'[r].alone =>
                  proc'[r].pc # "off" /\ \A q \in Processes \ {r} : proc'[q].pc = "off"
             /\ promised' # {} \/ ~disturbed' => \A r \in Processes : proc'[r].pc # "off" => proc'[r].alone
  <2>1. CASE Alone(p)
    <3>1. proc' = [proc EXCEPT ![p] = [Off EXCEPT !.pc = "promote", !.alone = TRUE]]
      BY <1>6, <2>1 DEF Start
    <3>2. proc'[p].pc = "promote" /\ proc'[p].alone = TRUE /\ \A q \in Processes \ {p} : proc'[q] = proc[q]
      BY <1>2, <3>1 DEF Off, ProcsOk
    <3>3. \A q \in Processes \ {p} : proc[q].pc = "off"
      BY <2>1 DEF Alone, Running
    <3> QED BY <1>1, <3>2, <3>3
  <2>2. CASE ~Alone(p)
    <3>1. /\ proc' = [q \in Processes |-> IF q = p THEN [Off EXCEPT !.pc = "promote"]
                                          ELSE [proc[q] EXCEPT !.alone = FALSE]]
          /\ promised' = {} /\ disturbed' = TRUE
      BY <1>6, <2>2 DEF Start
    <3>2. \A q \in Processes : proc'[q].alone = FALSE
      <4> TAKE q \in Processes
      <4>1. CASE q = p
        BY <3>1, <4>1 DEF Off
      <4>2. CASE q # p
        BY <1>2, <3>1, <4>2 DEF ProcsOk, ProcType
      <4> QED BY <4>1, <4>2
    <3> QED BY <3>1, <3>2
  <2> QED BY <2>1, <2>2
<1>7. ASSUME NEW p \in Processes, EndThread(p) \/ Crash(p)
      PROVE  /\ \A r \in Processes : proc'[r].alone =>
                  proc'[r].pc # "off" /\ \A q \in Processes \ {r} : proc'[q].pc = "off"
             /\ promised' # {} \/ ~disturbed' => \A r \in Processes : proc'[r].pc # "off" => proc'[r].alone
  <2>1. proc' = [proc EXCEPT ![p] = Off] /\ proc[p].pc # "off"
    BY <1>7 DEF EndThread, Crash, Running, At
  <2>2. proc'[p] = Off /\ \A q \in Processes \ {p} : proc'[q] = proc[q]
    BY <1>2, <2>1, OffFields
  <2>3. Off.pc = "off" /\ Off.alone = FALSE
    BY DEF Off
  <2>4. CASE proc[p].alone
    <3>1. \A q \in Processes : proc'[q].pc = "off"
      BY <1>1, <2>2, <2>3, <2>4
    <3>2. \A q \in Processes : proc'[q].alone = FALSE
      <4> TAKE q \in Processes
      <4>1. CASE q = p
        BY <2>2, <2>3, <4>1
      <4>2. CASE q # p
        BY <1>1, <1>2, <2>1, <2>2, <2>4, <4>2 DEF ProcsOk, ProcType
      <4> QED BY <4>1, <4>2
    <3> QED BY <3>1, <3>2
  <2>5. CASE ~proc[p].alone
    <3>1. promised = {} /\ disturbed
      BY <1>1, <2>1, <2>5
    <3>2. promised' = {} /\ disturbed'
      BY <1>7, <2>5, <3>1 DEF EndThread, Crash, Promise
    <3>3. \A q \in Processes : ~proc'[q].alone
      BY <1>1, <2>1, <2>2, <2>3
    <3> QED BY <3>2, <3>3
  <2> QED BY <2>4, <2>5
<1>8. CASE UNCHANGED vars
  BY <1>1, <1>8 DEF vars
<1> QED BY <1>4, <1>5, <1>6, <1>7, <1>8, NextCases

-----------------------------------------------------------------------------
(* Archives.                                                               *)

LEMMA ArchiveFacts ==
  ASSUME TypeInv, NEW n \in Names
  PROVE  /\ Archive(n) \in Seq(Entries)
         /\ path[n] = None => Archive(n) = <<>> /\ Has(n) = {}
         /\ path[n] # None /\ ~IsValid(data[path[n]]) => Archive(n) = <<>> /\ Has(n) = {}
         /\ path[n] # None /\ IsValid(data[path[n]]) =>
              /\ Archive(n) = Whole(data[path[n]])
              /\ Archive(n) # <<>> /\ Head(Archive(n)) = Header(build)
              /\ Tail(Archive(n)) \in Seq(Links)
              /\ Has(n) = {Header(build)} \cup Range(Tail(Archive(n)))
<1>1. Range(<<>>) = {} /\ <<>> \in Seq(Entries)
  BY DEF Range
<1>2. CASE path[n] = None
  <2>1. Archive(n) = <<>>
    BY <1>2 DEF Archive
  <2> QED BY <1>1, <1>2, <2>1 DEF Has
<1>3. CASE path[n] # None
  <2>1. path[n] \in Files
    BY <1>3 DEF TypeInv, PathOk
  <2> DEFINE s == data[path[n]]
  <2>2. s \in Seq(Entries) /\ DataOk(s) /\ build \in 1 .. MaxBuilds
    BY <2>1 DEF TypeInv, FilesOk
  <2> HIDE DEF s
  <2>3. /\ Readable(s) \in Seq(Entries)
        /\ IsValid(s) => /\ Readable(s) # <<>> /\ Head(Readable(s)) = Header(build)
                         /\ Tail(Readable(s)) \in Seq(Links)
                         /\ Range(Readable(s)) = {Header(build)} \cup Range(Tail(Readable(s)))
        /\ ~IsValid(s) => Readable(s) = <<>> /\ Range(Readable(s)) = {}
    BY <2>2, ReadableFacts
  <2>4. Archive(n) = Readable(s) /\ Has(n) = Range(Readable(s))
    BY <1>3 DEF Archive, Has, s
  <2>5. IsValid(s) => Archive(n) = Whole(s)
    BY <2>4 DEF Readable
  <2> QED BY <1>3, <2>3, <2>4, <2>5 DEF s
<1> QED BY <1>2, <1>3

LEMMA ArchiveNext ==
  ASSUME build' = build, NEW n
  PROVE  Archive(n)' = IF path'[n] = None THEN <<>> ELSE Readable(data'[path'[n]])
  BY DEF Archive, Readable, IsValid

\* An archive gets the name n, or keeps it.
LEMMA ArchiveMoved ==
  ASSUME build' = build, data' = data, NEW m, NEW n, path'[n] = path[m]
  PROVE  Archive(n)' = Archive(m) /\ Has(n)' = Has(m)
<1>1. Archive(n)' = IF path'[n] = None THEN <<>> ELSE Readable(data'[path'[n]])
  BY ArchiveNext
<1>2. Archive(n)' = Archive(m)
  BY <1>1 DEF Archive
<1> QED BY <1>2 DEF Has

\* The file of another archive was written to.
LEMMA ArchiveKept ==
  ASSUME build' = build, NEW n, path'[n] = path[n],
         path[n] # None => data'[path[n]] = data[path[n]]
  PROVE  Archive(n)' = Archive(n) /\ Has(n)' = Has(n)
<1>1. Archive(n)' = IF path'[n] = None THEN <<>> ELSE Readable(data'[path'[n]])
  BY ArchiveNext
<1>2. Archive(n)' = Archive(n)
  BY <1>1 DEF Archive
<1> QED BY <1>2 DEF Has

LEMMA ArchiveGone ==
  ASSUME NEW n, path'[n] = None
  PROVE  Archive(n)' = <<>> /\ Has(n)' = {}
<1>1. Archive(n)' = <<>> /\ Range(<<>>) = {}
  BY DEF Archive, Range
<1> QED BY <1>1 DEF Has

LEMMA ArchiveNone ==
  ASSUME NEW n, path[n] = None
  PROVE  Archive(n) = <<>> /\ Has(n) = {}
<1>1. Archive(n) = <<>> /\ Range(<<>>) = {}
  BY DEF Archive, Range
<1> QED BY <1>1 DEF Has

LEMMA StreamFacts ==
  ASSUME TypeInv, NEW p \in Processes, proc[p].file # None
  PROVE  /\ Stream(p) \in Seq(Entries) /\ Len(Stream(p)) = proc[p].written + Len(proc[p].buffer)
         /\ \A k \in 1 .. proc[p].written : Stream(p)[k] = data[proc[p].file][k]
         /\ \A k \in 1 .. Len(proc[p].buffer) : Stream(p)[proc[p].written + k] = proc[p].buffer[k]
<1> DEFINE f == proc[p].file
           w == proc[p].written
           b == proc[p].buffer
           G(k) == IF k <= w THEN data[f][k] ELSE b[k - w]
           s == [k \in 1 .. w + Len(b) |-> G(k)]
<1>1. proc[p] \in ProcType /\ ProcOk(proc[p]) /\ FilesOk
  BY DEF TypeInv, ProcsOk
<1>2. f \in Files /\ w \in Nat /\ b \in Seq(Entries) /\ data[f] \in Seq(Entries) /\ w <= Len(data[f])
  BY <1>1 DEF ProcType, ProcOk, FilesOk
<1>3. Len(b) \in Nat /\ Len(data[f]) \in Nat /\ w + Len(b) \in Nat
  BY <1>2, SeqFacts
<1>4. Stream(p) = s
  BY DEF Stream
<1> HIDE DEF f, w, b
<1>5. ASSUME NEW k \in 1 .. w + Len(b)  PROVE G(k) \in Entries
  <2>1. CASE k <= w
    <3>1. k \in DOMAIN data[f]
      BY <1>2, <1>3, <2>1, SeqFacts
    <3> QED BY <1>2, <2>1, <3>1, SeqFacts
  <2>2. CASE ~(k <= w)
    <3>1. k - w \in DOMAIN b
      BY <1>2, <1>3, <2>2, SeqFacts
    <3> QED BY <1>2, <2>2, <3>1, SeqFacts
  <2> QED BY <2>1, <2>2
<1> HIDE DEF G
<1>6. s \in [1 .. w + Len(b) -> Entries] /\ \A k \in 1 .. w + Len(b) : s[k] = G(k)
  BY <1>5
<1>7. s \in Seq(Entries) /\ Len(s) = w + Len(b)
  BY <1>3, <1>6
<1> HIDE DEF s
<1>8. \A k \in 1 .. w : s[k] = data[f][k]
  <2> TAKE k \in 1 .. w
  <2>1. k \in 1 .. w + Len(b) /\ k <= w
    BY <1>2, <1>3
  <2> QED BY <1>6, <2>1 DEF G
<1>9. \A k \in 1 .. Len(b) : s[w + k] = b[k]
  <2> TAKE k \in 1 .. Len(b)
  <2>1. w + k \in 1 .. w + Len(b) /\ ~(w + k <= w) /\ (w + k) - w = k
    BY <1>2, <1>3
  <2>2. s[w + k] = G(w + k)
    BY <1>6, <2>1
  <2>3. G(w + k) = b[(w + k) - w]
    BY <2>1 DEF G
  <2> QED BY <2>1, <2>2, <2>3
<1> QED BY <1>4, <1>7, <1>8, <1>9 DEF f, w, b

StreamIs(p) ==
  /\ Stream(p) \in Seq(Entries) /\ Len(Stream(p)) = proc[p].written + Len(proc[p].buffer)
  /\ \A k \in 1 .. proc[p].written : Stream(p)[k] = data[proc[p].file][k]
  /\ \A k \in 1 .. Len(proc[p].buffer) : Stream(p)[proc[p].written + k] = proc[p].buffer[k]

LEMMA StreamAlways ==
  TypeInv => \A p \in Processes : proc[p].file # None => StreamIs(p)
BY StreamFacts DEF StreamIs

LEMMA StreamNext ==
  TypeInv' => (\A p \in Processes : proc[p].file # None => StreamIs(p))'
BY StreamAlways, PTL

\* What can be read after a part of the buffer was written.
LEMMA FlushedArchive ==
  ASSUME TypeInv, NEW p \in Processes, proc[p].file # None, OnFile(p),
         NEW n \in 0 .. Len(proc[p].buffer), NEW t \in Torns,
         data' = Written(p, Flushed(p, n, t))
  PROVE  /\ Readable(data'[proc[p].file]) = SubSeq(Stream(p), 1, proc[p].written + n)
         /\ IsValid(data'[proc[p].file]) <=> proc[p].written + n >= 1
         /\ \A k \in 1 .. proc[p].written + n : data'[proc[p].file][k] = Stream(p)[k]
         /\ \A k \in 1 .. proc[p].written + n : data'[proc[p].file][k] # Torn
         /\ proc[p].written + n < Len(data'[proc[p].file]) =>
              data'[proc[p].file][proc[p].written + n + 1] = Torn
         /\ proc[p].written + n \in 0 .. Len(Stream(p))
<1> DEFINE f == proc[p].file
           w == proc[p].written
           b == proc[p].buffer
           F == data'[f]
           s == Stream(p)
<1>1. proc[p] \in ProcType /\ ProcOk(proc[p]) /\ FilesOk
  BY DEF TypeInv, ProcsOk
<1>2. f \in Files /\ w \in Nat /\ b \in Seq(Entries) /\ data[f] \in Seq(Entries) /\ w <= Len(data[f])
  BY <1>1 DEF ProcType, ProcOk, FilesOk
<1>3. /\ data' \in [Files -> Seq(Entries)]
      /\ Len(F) >= w + n
      /\ \A k \in 1 .. w : F[k] = data[f][k]
      /\ \A k \in 1 .. n : F[w + k] = b[k]
      /\ \/ n = 0 /\ F = data[f]
         \/ \A k \in w + n + 1 .. Len(F) : F[k] = Torn
  BY WrittenFacts
<1>4. F \in Seq(Entries) /\ Len(b) \in Nat /\ Len(F) \in Nat /\ n \in 0 .. Len(b)
  BY <1>2, <1>3, SeqFacts
<1>5. /\ s \in Seq(Entries) /\ Len(s) = w + Len(b)
      /\ \A k \in 1 .. w : s[k] = data[f][k]
      /\ \A k \in 1 .. Len(b) : s[w + k] = b[k]
  BY StreamFacts
<1>6. /\ \A k \in 1 .. w : data[f][k] # Torn
      /\ w < Len(data[f]) => data[f][w + 1] = Torn
      /\ s # <<>> /\ s[1] = Header(build)
  BY DEF OnFile
<1>7. \A k \in DOMAIN b : b[k] # Torn
  <2>1. BufferOk(proc[p]) /\ build \in 1 .. MaxBuilds
    BY <1>1 DEF ProcOk, TypeInv
  <2>2. ASSUME NEW k \in DOMAIN b  PROVE b[k] \in Links \/ b[k] \in Headers
    BY <2>1 DEF BufferOk
  <2>3. \A i \in 1 .. build : i \in 1 .. MaxBuilds
    BY <2>1, CacheAssumption
  <2>4. Torn \notin Headers
    BY <2>3, Kinds DEF Headers
  <2>5. Torn \notin Links
    BY Kinds
  <2> HIDE DEF b
  <2> QED BY <2>2, <2>4, <2>5
<1> HIDE DEF f, w, b, F, s
<1>8. ASSUME NEW k \in 1 .. w + n  PROVE F[k] = s[k] /\ F[k] # Torn
  <2>1. CASE k \in 1 .. w
    BY <1>3, <1>5, <1>6, <2>1
  <2>2. CASE k \notin 1 .. w
    <3>1. PICK j \in Int : j = k - w
      BY <1>2, <1>4
    <3>2. j \in 1 .. n /\ j \in 1 .. Len(b) /\ k = w + j
      BY <1>2, <1>4, <2>2, <3>1
    <3>3. j \in DOMAIN b
      BY <1>2, <3>2, SeqFacts
    <3> QED BY <1>3, <1>5, <1>7, <3>2, <3>3
  <2> QED BY <2>1, <2>2
<1>9. w + n < Len(F) => F[w + n + 1] = Torn
  <2> SUFFICES ASSUME w + n < Len(F)  PROVE F[w + n + 1] = Torn
    OBVIOUS
  <2>1. CASE n = 0 /\ F = data[f]
    <3>1. w + n + 1 = w + 1 /\ w < Len(data[f])
      BY <1>2, <1>4, <2>1
    <3> QED BY <1>6, <2>1, <3>1
  <2>2. CASE \A k \in w + n + 1 .. Len(F) : F[k] = Torn
    <3>1. w + n + 1 \in w + n + 1 .. Len(F)
      BY <1>2, <1>4
    <3> QED BY <2>2, <3>1
  <2> QED BY <1>3, <2>1, <2>2
<1>10. w + n \in 0 .. Len(F) /\ w + n \in 0 .. Len(s)
  BY <1>2, <1>3, <1>4, <1>5
<1>11. w + n >= 1 => F[1] = Header(build)
  <2> HAVE w + n >= 1
  <2>1. 1 \in 1 .. w + n
    BY <1>10
  <2> QED BY <1>6, <1>8, <2>1
<1> DEFINE m == w + n
<1>12. /\ F \in Seq(Entries) /\ m \in 0 .. Len(F)
       /\ \A k \in 1 .. m : F[k] # Torn
       /\ m < Len(F) => F[m + 1] = Torn
       /\ m >= 1 => F[1] = Header(build)
  BY <1>4, <1>8, <1>9, <1>10, <1>11
<1>13. s \in Seq(Entries) /\ m \in 0 .. Len(s) /\ \A k \in 1 .. m : F[k] = s[k]
  BY <1>5, <1>8, <1>10
<1> HIDE DEF m
<1>14. Readable(F) = SubSeq(F, 1, m) /\ (IsValid(F) <=> m >= 1)
  BY <1>12, ReadableIs
<1>15. SubSeq(F, 1, m) = SubSeq(s, 1, m)
  <2>1. /\ SubSeq(F, 1, m) \in Seq(Entries) /\ Len(SubSeq(F, 1, m)) = m
        /\ \A k \in 1 .. m : SubSeq(F, 1, m)[k] = F[k]
    BY <1>12, PrefixFacts
  <2>2. /\ SubSeq(s, 1, m) \in Seq(Entries) /\ Len(SubSeq(s, 1, m)) = m
        /\ \A k \in 1 .. m : SubSeq(s, 1, m)[k] = s[k]
    BY <1>13, PrefixFacts
  <2>3. \A k \in 1 .. m : SubSeq(F, 1, m)[k] = SubSeq(s, 1, m)[k]
    BY <1>13, <2>1, <2>2
  <2> QED BY <2>1, <2>2, <2>3, SeqEqual
<1>16. Readable(F) = SubSeq(s, 1, w + n) /\ (IsValid(F) <=> w + n >= 1)
  BY <1>14, <1>15 DEF m
<1> QED BY <1>8, <1>9, <1>10, <1>16 DEF f, w, b, F, s

\* Writing a part of the buffer does not change what was written and buffered.
LEMMA StreamKept ==
  ASSUME TypeInv, TypeInv', NEW p \in Processes, proc[p].file # None, OnFile(p), build' = build,
         NEW n \in 0 .. Len(proc[p].buffer), NEW t \in Torns,
         data' = Written(p, Flushed(p, n, t)), proc'[p].file = proc[p].file,
         proc'[p].written = proc[p].written + n,
         proc'[p].buffer = SubSeq(proc[p].buffer, n + 1, Len(proc[p].buffer))
  PROVE  Stream(p)' = Stream(p) /\ OnFile(p)'
<1> DEFINE f == proc[p].file
           w == proc[p].written
           b == proc[p].buffer
           s == Stream(p)
           u == Stream(p)'
           c == SubSeq(b, n + 1, Len(b))
<1>1. w \in Nat /\ b \in Seq(Entries)
  BY DEF TypeInv, ProcsOk, ProcType
<1>2. /\ s \in Seq(Entries) /\ Len(s) = w + Len(b)
      /\ \A k \in 1 .. Len(b) : s[w + k] = b[k]
  BY StreamFacts
<1>3. /\ u \in Seq(Entries) /\ Len(u) = proc'[p].written + Len(proc'[p].buffer)
      /\ \A k \in 1 .. proc'[p].written : u[k] = data'[proc'[p].file][k]
      /\ \A k \in 1 .. Len(proc'[p].buffer) : u[proc'[p].written + k] = proc'[p].buffer[k]
  <2>1. TypeInv' => (\A q \in Processes : proc[q].file # None => StreamIs(q))'
    BY StreamNext
  <2>2. StreamIs(p)'
    BY <2>1
  <2> QED BY <2>2 DEF StreamIs
<1>4. /\ \A k \in 1 .. w + n : data'[f][k] = s[k]
      /\ \A k \in 1 .. w + n : data'[f][k] # Torn
      /\ w + n < Len(data'[f]) => data'[f][w + n + 1] = Torn
  BY FlushedArchive
<1>5. c \in Seq(Entries) /\ Len(c) = Len(b) - n /\ \A k \in 1 .. Len(b) - n : c[k] = b[n + k]
  BY <1>1, SuffixFacts
<1>6. Len(b) \in Nat /\ n \in 0 .. Len(b)
  BY <1>1, SeqFacts
<1>7. proc'[p].file = f /\ proc'[p].written = w + n /\ proc'[p].buffer = c
  OBVIOUS
<1> HIDE DEF f, w, b, s, u, c
<1>8. Len(u) = Len(s)
  <2>1. Len(u) = (w + n) + (Len(b) - n) /\ Len(s) = w + Len(b)
    BY <1>2, <1>3, <1>5, <1>7
  <2> QED BY <1>1, <1>6, <2>1
<1>9. ASSUME NEW k \in 1 .. Len(s)  PROVE u[k] = s[k]
  <2>1. CASE k \in 1 .. w + n
    BY <1>3, <1>4, <1>7, <2>1
  <2>2. CASE k \notin 1 .. w + n
    <3>1. PICK j \in Int : j = k - (w + n)
      BY <1>1, <1>6
    <3>2. j \in 1 .. Len(b) - n /\ k = (w + n) + j /\ n + j \in 1 .. Len(b) /\ k = w + (n + j)
      BY <1>1, <1>2, <1>6, <2>2, <3>1
    <3>3. u[(w + n) + j] = c[j]
      BY <1>3, <1>5, <1>7, <3>2
    <3>4. c[j] = b[n + j] /\ s[w + (n + j)] = b[n + j]
      BY <1>2, <1>5, <3>2
    <3> QED BY <3>2, <3>3, <3>4
  <2> QED BY <2>1, <2>2
<1>10. u = s
  BY <1>2, <1>3, <1>8, <1>9, SeqEqual
<1>11. s # <<>> /\ s[1] = Header(build)
  BY DEF OnFile, s
<1>12. OnFile(p)'
  BY <1>4, <1>7, <1>10, <1>11 DEF OnFile, u
<1> QED BY <1>10, <1>12 DEF s, u

-----------------------------------------------------------------------------
(* Where an alone process is.                                              *)

LEMMA NamesAre ==
  /\ "read" \in Names /\ "write" \in Names /\ "merge" \in Names
  /\ Names = {"read", "write", "merge"}
BY DEF Names

LEMMA StageDone ==
  ASSUME AloneInv', NEW p \in Processes, proc'[p].alone, StageOk(p)'
  PROVE  StageInv'
<1>1. Running(p)' /\ Alone(p)'
  BY DEF AloneInv
<1>2. ASSUME NEW r \in Processes, proc'[r].alone  PROVE StageOk(r)'
  <2>1. Running(r)'
    BY <1>2 DEF AloneInv
  <2>2. r = p
    BY <1>1, <2>1 DEF Alone, Running
  <2> QED BY <2>2
<1>3. ~ \A r \in Processes : (~Running(r))'
  BY <1>1
<1> QED BY <1>2, <1>3 DEF StageInv

\* What holds at the start holds as long as the two archives are the same.
LEMMA StartKept ==
  ASSUME StartOk, UNCHANGED <<promised, lost, disturbed>>,
         \A n \in Names : Archive(n)' = Archive(n) /\ Has(n)' = Has(n) /\ path'[n] = path[n]
  PROVE  StartOk'
<1>1. /\ Archive("read")' = Archive("read") /\ Has("read")' = Has("read") /\ path'["read"] = path["read"]
      /\ Archive("write")' = Archive("write") /\ Has("write")' = Has("write") /\ path'["write"] = path["write"]
      /\ path'["merge"] = path["merge"]
  BY NamesAre
<1> QED BY <1>1 DEF StartOk

LEMMA ArchivesSame ==
  ASSUME UNCHANGED <<path, data, build>>
  PROVE  \A n \in Names : Archive(n)' = Archive(n) /\ Has(n)' = Has(n) /\ path'[n] = path[n]
<1> TAKE n \in Names
<1>1. build' = build /\ path'[n] = path[n] /\ data' = data
  OBVIOUS
<1>2. Archive(n)' = Archive(n) /\ Has(n)' = Has(n)
  BY <1>1, ArchiveMoved
<1> QED BY <1>1, <1>2

LEMMA StreamSame ==
  ASSUME data' = data, NEW p, proc'[p].file = proc[p].file, proc'[p].written = proc[p].written,
         proc'[p].buffer = proc[p].buffer
  PROVE  Stream(p)' = Stream(p)
BY DEF Stream

\* Stages that have the same archives and the same work.
LEMMA StageFrame ==
  ASSUME UNCHANGED <<path, data, build, promised, lost, disturbed>>, NEW p \in Processes,
         proc'[p].pc = proc[p].pc, proc[p].closing => proc'[p].closing,
         proc'[p].library = proc[p].library, proc'[p].attempted = proc[p].attempted,
         proc'[p].file = proc[p].file, proc'[p].written = proc[p].written,
         proc'[p].buffer = proc[p].buffer, proc'[p].write_map = proc[p].write_map,
         proc'[p].map = proc[p].map, proc'[p].setup = proc[p].setup, StageOk(p)
  PROVE  StageOk(p)'
<1>1. \A n \in Names : Archive(n)' = Archive(n) /\ Has(n)' = Has(n) /\ path'[n] = path[n]
  BY ArchivesSame
<1>2. /\ Archive("read")' = Archive("read") /\ Has("read")' = Has("read") /\ path' = path
      /\ Archive("write")' = Archive("write") /\ Has("write")' = Has("write") /\ data' = data
      /\ Archive("merge")' = Archive("merge") /\ Has("merge")' = Has("merge") /\ build' = build
      /\ promised' = promised /\ lost' = lost /\ disturbed' = disturbed
  BY <1>1, NamesAre
<1>3. StartOk => StartOk'
  BY <1>1, StartKept
<1>4. (WriteOk <=> WriteOk') /\ (MergeValid <=> MergeValid') /\ (Mapped(p) => Mapped(p)')
  BY <1>2 DEF WriteOk, MergeValid, IsValid, Mapped
<1>5. MergeOk => MergeOk'
  BY <1>2, <1>4 DEF MergeOk, Closed
<1>6. Stream(p)' = Stream(p)
  BY <1>2 DEF Stream
<1>7. OnFile(p) => OnFile(p)'
  BY <1>2, <1>6 DEF OnFile
<1>8. /\ At(p, "promote")' => StartOk'
      /\ At(p, "map_write")' => MapWriteOk'
      /\ At(p, "take_read")' => TakeReadOk(p)'
      /\ At(p, "open_merge")' => OpenMergeOk(p)'
  BY <1>2, <1>3, <1>4, <1>5 DEF StageOk, At, MapWriteOk, TakeReadOk, OpenMergeOk
<1>9. /\ At(p, "drop_read")' => DropReadOk(p)'
      /\ At(p, "replace_read")' => ReplaceReadOk'
      /\ At(p, "parse")' => ParseOk(p)'
  BY <1>2, <1>4, <1>5 DEF StageOk, At, DropReadOk, ReplaceReadOk, ParseOk, OpenMergeOk
<1>10. At(p, "append")' => AppendOk(p)'
  BY <1>2, <1>4, <1>5, <1>6, <1>7 DEF StageOk, At, AppendOk
<1>11. /\ At(p, "put_back")' => PutBackOk(p)'
       /\ At(p, "replace")' => ReplaceOk'
       /\ At(p, "delete_write")' => DeleteWriteOk'
       /\ At(p, "delete_merge")' => DeleteMergeOk'
       /\ At(p, "load")' => LoadOk(p)'
  BY <1>2, <1>3, <1>4, <1>5 DEF StageOk, At, PutBackOk, ReplaceOk, DeleteWriteOk, DeleteMergeOk, LoadOk
<1>12. At(p, "loop")' => LoopOk(p)'
  BY <1>2, <1>3, <1>6, <1>7 DEF StageOk, At, LoopOk, Closed
<1> QED BY <1>8, <1>9, <1>10, <1>11, <1>12 DEF StageOk

LEMMA ClosedAppend ==
  ASSUME NEW S, NEW s \in Seq(S), NEW e \in S, NEW base, Closed(s, base),
         e \in Pipelines => CodeOf[e] \subseteq base \cup Range(s)
  PROVE  Closed(Append(s, e), base)
<1>1. <<e>> \in Seq(S)
  BY SingleFacts
<1>2. Closed(<<e>>, base \cup Range(s))
  BY ClosedSingle
<1>3. Closed(s \o <<e>>, base)
  BY <1>1, <1>2, ClosedConcat
<1>4. Append(s, e) = s \o <<e>>
  BY <1>1
<1> QED BY <1>3, <1>4

LEMMA PrefixRange ==
  ASSUME NEW S, NEW s \in Seq(S), NEW m \in 0 .. Len(s), NEW n \in m .. Len(s)
  PROVE  /\ Range(SubSeq(s, 1, m)) \subseteq Range(SubSeq(s, 1, n))
         /\ Range(SubSeq(s, 1, m)) \subseteq Range(s)
         /\ SubSeq(s, 1, Len(s)) = s
<1>0. Len(s) \in Nat /\ n \in 0 .. Len(s)
  BY SeqFacts
<1> DEFINE a == SubSeq(s, 1, m)
           b == SubSeq(s, 1, n)
           c == SubSeq(s, 1, Len(s))
<1>1. a \in Seq(S) /\ Len(a) = m /\ \A k \in 1 .. m : a[k] = s[k]
  BY PrefixFacts
<1>2. b \in Seq(S) /\ Len(b) = n /\ \A k \in 1 .. n : b[k] = s[k]
  BY <1>0, PrefixFacts
<1>3. Len(s) \in 0 .. Len(s)
  BY <1>0
<1>4. c \in Seq(S) /\ Len(c) = Len(s) /\ \A k \in 1 .. Len(s) : c[k] = s[k]
  BY <1>3, PrefixFacts
<1> HIDE DEF a, b, c
<1>5. /\ Range(a) = {a[k] : k \in 1 .. m} /\ Range(b) = {b[k] : k \in 1 .. n}
      /\ Range(s) = {s[k] : k \in 1 .. Len(s)}
  BY <1>1, <1>2, SeqFacts
<1>6. \A k \in 1 .. m : k \in 1 .. n /\ k \in 1 .. Len(s)
  BY <1>0
<1>7. Range(a) \subseteq Range(b) /\ Range(a) \subseteq Range(s)
  BY <1>1, <1>2, <1>5, <1>6
<1>8. c = s
  BY <1>4, SeqEqual
<1> QED BY <1>7, <1>8 DEF a, b, c

\* What can be read from a file a process writes to: what it has written.
LEMMA OnFileArchive ==
  ASSUME TypeInv, NEW p \in Processes, proc[p].file # None, OnFile(p),
         NEW n \in Names, path[n] = proc[p].file
  PROVE  /\ Archive(n) = SubSeq(Stream(p), 1, proc[p].written)
         /\ proc[p].written \in 0 .. Len(Stream(p))
<1> DEFINE f == proc[p].file
           w == proc[p].written
           F == data[f]
           s == Stream(p)
<1>1. proc[p] \in ProcType /\ ProcOk(proc[p])
  BY DEF TypeInv, ProcsOk
<1>2. f \in Files /\ w \in Nat /\ F \in Seq(Entries) /\ w <= Len(F) /\ proc[p].buffer \in Seq(Entries)
  BY <1>1 DEF ProcType, ProcOk, TypeInv, FilesOk
<1>3. Len(F) \in Nat /\ Len(proc[p].buffer) \in Nat
  BY <1>2, SeqFacts
<1>4. /\ s \in Seq(Entries) /\ Len(s) = w + Len(proc[p].buffer)
      /\ \A k \in 1 .. w : s[k] = F[k]
  BY StreamFacts
<1>5. /\ \A k \in 1 .. w : F[k] # Torn
      /\ w < Len(F) => F[w + 1] = Torn
      /\ s # <<>> /\ s[1] = Header(build)
  BY DEF OnFile
<1>6. Archive(n) = Readable(F)
  BY DEF Archive
<1> HIDE DEF f, w, F, s
<1>7. w \in 0 .. Len(F) /\ w \in 0 .. Len(s)
  BY <1>2, <1>3, <1>4
<1>8. w >= 1 => F[1] = Header(build)
  <2> HAVE w >= 1
  <2>1. 1 \in 1 .. w
    BY <1>2
  <2> QED BY <1>4, <1>5, <2>1
<1>9. Readable(F) = SubSeq(F, 1, w)
  BY <1>2, <1>5, <1>7, <1>8, ReadableIs
<1>10. SubSeq(F, 1, w) = SubSeq(s, 1, w)
  <2>1. /\ SubSeq(F, 1, w) \in Seq(Entries) /\ Len(SubSeq(F, 1, w)) = w
        /\ \A k \in 1 .. w : SubSeq(F, 1, w)[k] = F[k]
    BY <1>2, <1>7, PrefixFacts
  <2>2. /\ SubSeq(s, 1, w) \in Seq(Entries) /\ Len(SubSeq(s, 1, w)) = w
        /\ \A k \in 1 .. w : SubSeq(s, 1, w)[k] = s[k]
    BY <1>4, <1>7, PrefixFacts
  <2>3. \A k \in 1 .. w : SubSeq(F, 1, w)[k] = SubSeq(s, 1, w)[k]
    BY <1>4, <2>1, <2>2
  <2> QED BY <2>1, <2>2, <2>3, SeqEqual
<1> QED BY <1>6, <1>7, <1>9, <1>10 DEF f, w, F, s

-----------------------------------------------------------------------------
(* Archives that get another name, or are deleted.                         *)

\* The archive m, if there is one, has the name n.
LEMMA RenamedArchives ==
  ASSUME PathOk, UNCHANGED <<data, build>>, NEW m \in Names, NEW n \in Names, m # n,
         path[m] # None, path' = Renamed(m, n)
  PROVE  /\ path'[m] = None /\ Archive(m)' = <<>> /\ Has(m)' = {}
         /\ path'[n] = path[m] /\ Archive(n)' = Archive(m) /\ Has(n)' = Has(m)
         /\ \A k \in Names \ {m, n} : /\ path'[k] = path[k]
                                      /\ Archive(k)' = Archive(k) /\ Has(k)' = Has(k)
<1>1. path'[m] = None /\ path'[n] = path[m] /\ \A k \in Names \ {m, n} : path'[k] = path[k]
  BY RenamedOk
<1>2. Archive(m)' = <<>> /\ Has(m)' = {}
  BY <1>1, ArchiveGone
<1>3. data' = data /\ build' = build
  OBVIOUS
<1>4. Archive(n)' = Archive(m) /\ Has(n)' = Has(m)
  BY <1>1, <1>3, ArchiveMoved
<1>5. ASSUME NEW k \in Names \ {m, n}  PROVE Archive(k)' = Archive(k) /\ Has(k)' = Has(k)
  <2>1. path'[k] = path[k]
    BY <1>1
  <2> QED BY <1>3, <2>1, ArchiveMoved
<1> QED BY <1>1, <1>2, <1>4, <1>5

LEMMA DeletedArchives ==
  ASSUME PathOk, UNCHANGED <<data, build>>, NEW n \in Names, path' = Deleted(n)
  PROVE  /\ path'[n] = None /\ Archive(n)' = <<>> /\ Has(n)' = {}
         /\ \A k \in Names \ {n} : /\ path'[k] = path[k]
                                   /\ Archive(k)' = Archive(k) /\ Has(k)' = Has(k)
<1>1. path'[n] = None /\ \A k \in Names \ {n} : path'[k] = path[k]
  BY DeletedOk
<1>2. Archive(n)' = <<>> /\ Has(n)' = {}
  BY <1>1, ArchiveGone
<1>3. data' = data /\ build' = build
  OBVIOUS
<1>5. ASSUME NEW k \in Names \ {n}  PROVE Archive(k)' = Archive(k) /\ Has(k)' = Has(k)
  <2>1. path'[k] = path[k]
    BY <1>1
  <2> QED BY <1>3, <2>1, ArchiveMoved
<1> QED BY <1>1, <1>2, <1>5

LEMMA PromoteStage ==
  ASSUME TypeInv, NEW p \in Processes, Promote(p), StageOk(p)
  PROVE  StageOk(p)'
<1>1. /\ At(p, "promote") /\ UNCHANGED <<data, build>> /\ promised' = promised /\ lost' = lost /\ disturbed' = disturbed
      /\ PathOk /\ ProcsOk
  BY DEF Promote, history, TypeInv
<1>2. StartOk
  BY <1>1 DEF StageOk
<1>3. CASE CanRename("write", "read")
  <2>1. path["write"] # None /\ path["read"] = None
    BY <1>3 DEF CanRename
  <2>2. path' = Renamed("write", "read") /\ Go(p, "delete_write")
    BY <1>3 DEF Promote
  <2>3. /\ path'["write"] = None /\ Archive("write")' = <<>> /\ Has("write")' = {}
        /\ Archive("read")' = Archive("write") /\ Has("read")' = Has("write")
    BY <1>1, <2>1, <2>2, NamesAre, RenamedArchives
  <2>4. Has("read") = {}
    BY <2>1, ArchiveNone
  <2>5. DeleteWriteOk'
    BY <1>1, <1>2, <2>3, <2>4, ClosedEmpty DEF DeleteWriteOk, StartOk
  <2>6. proc'[p].pc = "delete_write"
    BY <1>1, <2>2, GoFacts DEF Stages
  <2> QED BY <2>5, <2>6 DEF StageOk, At
<1>4. CASE ~CanRename("write", "read")
  <2>1. path["write"] = None \/ path["read"] # None
    BY <1>4 DEF CanRename
  <2>2. path' = path /\ Go(p, "map_write")
    BY <1>4 DEF Promote
  <2>3. StartOk'
    BY <1>1, <1>2, <2>2, ArchivesSame, StartKept
  <2>4. MapWriteOk'
    BY <1>1, <1>2, <2>1, <2>2, <2>3 DEF MapWriteOk, StartOk
  <2>5. proc'[p].pc = "map_write"
    BY <1>1, <2>2, GoFacts DEF Stages
  <2> QED BY <2>4, <2>5 DEF StageOk, At
<1> QED BY <1>3, <1>4

LEMMA TakeReadStage ==
  ASSUME TypeInv, NEW p \in Processes, TakeRead(p), StageOk(p)
  PROVE  StageOk(p)'
<1>1. /\ At(p, "take_read") /\ UNCHANGED <<data, build>> /\ promised' = promised /\ lost' = lost /\ disturbed' = disturbed
      /\ PathOk /\ ProcsOk
  BY DEF TakeRead, history, TypeInv
<1>2. TakeReadOk(p)
  BY <1>1 DEF StageOk
<1>3. CASE CanRename("read", "merge")
  <2>1. path["read"] # None /\ path["merge"] = None
    BY <1>3 DEF CanRename
  <2>2. path' = Renamed("read", "merge") /\ Go(p, "open_merge")
    BY <1>3 DEF TakeRead
  <2>3. /\ path'["read"] = None /\ path'["merge"] = path["read"]
        /\ Archive("merge")' = Archive("read") /\ Has("merge")' = Has("read")
        /\ \A k \in Names \ {"read", "merge"} :
             path'[k] = path[k] /\ Archive(k)' = Archive(k) /\ Has(k)' = Has(k)
    BY <1>1, <2>1, <2>2, NamesAre, RenamedArchives
  <2>4. "write" \in Names \ {"read", "merge"}
    BY NamesAre
  <2>5. path'["write"] = path["write"] /\ Archive("write")' = Archive("write") /\ Has("write")' = Has("write")
    BY <2>3, <2>4
  <2>6. proc'[p].pc = "open_merge" /\ proc'[p].write_map = proc[p].write_map
    BY <1>1, <2>2, GoFacts DEF Stages
  <2>7. Mapped(p)' /\ WriteOk'
    BY <1>1, <1>2, <2>5, <2>6 DEF TakeReadOk, Mapped, WriteOk, IsValid
  <2>8. OpenMergeOk(p)'
    BY <1>1, <1>2, <2>1, <2>3, <2>5, <2>7 DEF OpenMergeOk, MergeOk, TakeReadOk, StartOk
  <2> QED BY <2>6, <2>8 DEF StageOk, At
<1>4. CASE ~CanRename("read", "merge")
  <2>1. path["read"] = None \/ path["merge"] # None
    BY <1>4 DEF CanRename
  <2>2. path' = path /\ Go(p, "delete_write")
    BY <1>4 DEF TakeRead
  <2>3. StartOk'
    BY <1>1, <1>2, <2>2, ArchivesSame, StartKept DEF TakeReadOk
  <2>4. promised = {}
    BY <1>2, <2>1 DEF TakeReadOk
  <2>5. DeleteWriteOk'
    BY <1>1, <2>3, <2>4 DEF DeleteWriteOk
  <2>6. proc'[p].pc = "delete_write"
    BY <1>1, <2>2, GoFacts DEF Stages
  <2> QED BY <2>5, <2>6 DEF StageOk, At
<1> QED BY <1>3, <1>4

LEMMA DropReadStage ==
  ASSUME TypeInv, NEW p \in Processes, DropRead(p), StageOk(p)
  PROVE  StageOk(p)'
<1>1. /\ At(p, "drop_read") /\ UNCHANGED <<data, build>> /\ promised' = promised /\ lost' = lost /\ disturbed' = disturbed
      /\ PathOk /\ ProcsOk /\ path' = Deleted("merge") /\ Go(p, "replace_read")
  BY DEF DropRead, history, TypeInv
<1>2. DropReadOk(p)
  BY <1>1 DEF StageOk
<1>3. /\ path'["merge"] = None
      /\ \A k \in Names \ {"merge"} :
           path'[k] = path[k] /\ Archive(k)' = Archive(k) /\ Has(k)' = Has(k)
  BY <1>1, NamesAre, DeletedArchives
<1>4. "write" \in Names \ {"merge"} /\ "read" \in Names \ {"merge"}
  BY NamesAre
<1>5. /\ path'["write"] = path["write"] /\ Archive("write")' = Archive("write")
      /\ Has("write")' = Has("write") /\ path'["read"] = path["read"]
  BY <1>3, <1>4
<1>6. WriteOk'
  BY <1>1, <1>2, <1>5 DEF DropReadOk, WriteOk, IsValid
<1>7. ReplaceReadOk'
  BY <1>1, <1>2, <1>3, <1>5, <1>6 DEF DropReadOk, ReplaceReadOk
<1>8. proc'[p].pc = "replace_read"
  BY <1>1, GoFacts DEF Stages
<1> QED BY <1>7, <1>8 DEF StageOk, At

LEMMA ReplaceReadStage ==
  ASSUME TypeInv, NEW p \in Processes, ReplaceRead(p), StageOk(p)
  PROVE  StageOk(p)'
<1>1. /\ At(p, "replace_read") /\ UNCHANGED <<data, build>> /\ promised' = promised /\ lost' = lost /\ disturbed' = disturbed
      /\ PathOk /\ ProcsOk /\ path' = Renamed("write", "read") /\ Go(p, "delete_write")
  BY DEF ReplaceRead, history, TypeInv
<1>2. ReplaceReadOk
  BY <1>1 DEF StageOk
<1>3. path["write"] # None
  BY <1>2 DEF ReplaceReadOk, WriteOk
<1>4. /\ path'["write"] = None /\ Archive("write")' = <<>> /\ Has("write")' = {}
      /\ Archive("read")' = Archive("write") /\ Has("read")' = Has("write")
  BY <1>1, <1>3, NamesAre, RenamedArchives
<1>5. DeleteWriteOk'
  BY <1>1, <1>2, <1>4, ClosedEmpty DEF DeleteWriteOk, StartOk, ReplaceReadOk
<1>6. proc'[p].pc = "delete_write"
  BY <1>1, GoFacts DEF Stages
<1> QED BY <1>5, <1>6 DEF StageOk, At

\* The file of the merge is the read-only archive again.
LEMMA MergedArchives ==
  ASSUME PathOk, UNCHANGED <<data, build>>, MergeOk, path' = Renamed("merge", "read")
  PROVE  /\ path'["merge"] = None /\ path'["write"] = path["write"]
         /\ Archive("read")' = Archive("merge") /\ Has("read")' = Has("merge")
         /\ Archive("write")' = Archive("write") /\ Has("write")' = Has("write")
<1>1. path["merge"] # None
  BY DEF MergeOk
<1>2. /\ path'["merge"] = None
      /\ Archive("read")' = Archive("merge") /\ Has("read")' = Has("merge")
      /\ \A k \in Names \ {"merge", "read"} :
           path'[k] = path[k] /\ Archive(k)' = Archive(k) /\ Has(k)' = Has(k)
  BY <1>1, NamesAre, RenamedArchives
<1>3. "write" \in Names \ {"merge", "read"}
  BY NamesAre
<1> QED BY <1>2, <1>3

LEMMA PutBackStage ==
  ASSUME TypeInv, NEW p \in Processes, PutBack(p), StageOk(p)
  PROVE  StageOk(p)'
<1>1. /\ At(p, "put_back") /\ UNCHANGED <<data, build>> /\ promised' = promised /\ lost' = lost /\ disturbed' = disturbed
      /\ PathOk /\ ProcsOk /\ path' = Renamed("merge", "read") /\ Go(p, "load")
  BY DEF PutBack, history, TypeInv
<1>2. PutBackOk(p) /\ MergeOk
  BY <1>1 DEF StageOk, PutBackOk
<1>3. /\ path'["merge"] = None /\ path'["write"] = path["write"]
      /\ Archive("read")' = Archive("merge") /\ Has("read")' = Has("merge")
      /\ Archive("write")' = Archive("write") /\ Has("write")' = Has("write")
  BY <1>1, <1>2, MergedArchives
<1>4. proc'[p].pc = "load" /\ proc'[p].closing = proc[p].closing
  BY <1>1, GoFacts DEF Stages
<1>5. LoadOk(p)'
  BY <1>1, <1>2, <1>3, <1>4 DEF LoadOk, StartOk, PutBackOk, MergeOk
<1> QED BY <1>4, <1>5 DEF StageOk, At

LEMMA ReplaceStage ==
  ASSUME TypeInv, NEW p \in Processes, Replace(p), StageOk(p)
  PROVE  StageOk(p)'
<1>1. /\ At(p, "replace") /\ UNCHANGED <<data, build>> /\ promised' = promised /\ lost' = lost /\ disturbed' = disturbed
      /\ PathOk /\ ProcsOk /\ path' = Renamed("merge", "read") /\ Go(p, "delete_write")
  BY DEF Replace, history, TypeInv
<1>2. ReplaceOk /\ MergeOk
  BY <1>1 DEF StageOk, ReplaceOk
<1>3. /\ path'["merge"] = None /\ path'["write"] = path["write"]
      /\ Archive("read")' = Archive("merge") /\ Has("read")' = Has("merge")
      /\ Archive("write")' = Archive("write") /\ Has("write")' = Has("write")
  BY <1>1, <1>2, MergedArchives
<1>4. DeleteWriteOk'
  BY <1>1, <1>2, <1>3 DEF DeleteWriteOk, StartOk, ReplaceOk, MergeOk
<1>5. proc'[p].pc = "delete_write"
  BY <1>1, GoFacts DEF Stages
<1> QED BY <1>4, <1>5 DEF StageOk, At

LEMMA DeleteWriteStage ==
  ASSUME TypeInv, NEW p \in Processes, DeleteWrite(p), StageOk(p)
  PROVE  StageOk(p)'
<1>1. /\ At(p, "delete_write") /\ UNCHANGED <<data, build>> /\ promised' = promised /\ lost' = lost /\ disturbed' = disturbed
      /\ PathOk /\ ProcsOk /\ path' = Deleted("write") /\ Go(p, "delete_merge")
  BY DEF DeleteWrite, history, TypeInv
<1>2. DeleteWriteOk
  BY <1>1 DEF StageOk
<1>3. /\ path'["write"] = None /\ Archive("write")' = <<>> /\ Has("write")' = {}
      /\ \A k \in Names \ {"write"} :
           path'[k] = path[k] /\ Archive(k)' = Archive(k) /\ Has(k)' = Has(k)
  BY <1>1, NamesAre, DeletedArchives
<1>4. "read" \in Names \ {"write"}
  BY NamesAre
<1>5. Archive("read")' = Archive("read") /\ Has("read")' = Has("read")
  BY <1>3, <1>4
<1>6. DeleteMergeOk'
  BY <1>1, <1>2, <1>3, <1>5, ClosedEmpty DEF DeleteMergeOk, StartOk, DeleteWriteOk
<1>7. proc'[p].pc = "delete_merge"
  BY <1>1, GoFacts DEF Stages
<1> QED BY <1>6, <1>7 DEF StageOk, At

LEMMA DeleteMergeStage ==
  ASSUME TypeInv, NEW p \in Processes, DeleteMerge(p), StageOk(p)
  PROVE  StageOk(p)'
<1>1. /\ At(p, "delete_merge") /\ UNCHANGED <<data, build>> /\ promised' = promised /\ lost' = lost /\ disturbed' = disturbed
      /\ PathOk /\ ProcsOk /\ path' = Deleted("merge") /\ Go(p, "load")
  BY DEF DeleteMerge, history, TypeInv
<1>2. DeleteMergeOk
  BY <1>1 DEF StageOk
<1>3. /\ path'["merge"] = None
      /\ \A k \in Names \ {"merge"} :
           path'[k] = path[k] /\ Archive(k)' = Archive(k) /\ Has(k)' = Has(k)
  BY <1>1, NamesAre, DeletedArchives
<1>4. "read" \in Names \ {"merge"} /\ "write" \in Names \ {"merge"}
  BY NamesAre
<1>5. /\ Archive("read")' = Archive("read") /\ Has("read")' = Has("read")
      /\ Archive("write")' = Archive("write") /\ Has("write")' = Has("write") /\ path'["write"] = path["write"]
  BY <1>3, <1>4
<1>6. LoadOk(p)'
  BY <1>1, <1>2, <1>3, <1>5 DEF LoadOk, StartOk, DeleteMergeOk
<1>7. proc'[p].pc = "load"
  BY <1>1, GoFacts DEF Stages
<1> QED BY <1>6, <1>7 DEF StageOk, At

LEMMA GoesOnStage ==
  ASSUME TypeInv, NEW p \in Processes, GoesOn(p), StageOk(p)
  PROVE  StageOk(p)'
BY PromoteStage, TakeReadStage, DropReadStage, ReplaceReadStage, PutBackStage, ReplaceStage,
   DeleteWriteStage, DeleteMergeStage DEF GoesOn

-----------------------------------------------------------------------------
(* The write-only archive is mapped, and its entries are appended.         *)

LEMMA MapWriteStage ==
  ASSUME TypeInv, NEW p \in Processes, MapWrite(p), StageOk(p)
  PROVE  StageOk(p)'
<1> DEFINE f == path["write"]
<1>1. /\ At(p, "map_write") /\ UNCHANGED <<path, data, build>> /\ promised' = promised
      /\ lost' = lost /\ disturbed' = disturbed /\ PathOk /\ ProcsOk
  BY DEF MapWrite, history, TypeInv
<1>2. MapWriteOk
  BY <1>1 DEF StageOk
<1>3. StartOk'
  BY <1>1, <1>2, ArchivesSame, StartKept DEF MapWriteOk
<1>4. CASE f # None /\ IsValid(data[f])
  <2>1. /\ Archive("write") = Whole(data[f]) /\ Tail(Archive("write")) \in Seq(Links)
    BY <1>4, NamesAre, ArchiveFacts
  <2>2. PICK s \in Seq(Links) : s = Tail(Archive("write"))
    BY <2>1
  <2>3. proc' = [proc EXCEPT ![p].pc = "take_read", ![p].write_map = s]
    BY <1>4, <2>1, <2>2 DEF MapWrite
  <2>4. proc'[p].pc = "take_read" /\ proc'[p].write_map = s
    BY <1>1, <2>3, MapWriteFields
  <2>5. Archive("write")' = Archive("write")
    BY <1>1, NamesAre, ArchivesSame
  <2>6. WriteOk'
    BY <1>1, <1>4 DEF WriteOk, IsValid
  <2>7. Mapped(p)'
    BY <2>2, <2>4, <2>5, <2>6 DEF Mapped
  <2>8. TakeReadOk(p)'
    BY <1>1, <1>2, <1>3, <1>4, <2>7 DEF TakeReadOk, MapWriteOk
  <2> QED BY <2>4, <2>8 DEF StageOk, At
<1>5. CASE ~(f # None /\ IsValid(data[f]))
  <2>1. Go(p, "delete_write")
    BY <1>5 DEF MapWrite
  <2>2. proc'[p].pc = "delete_write"
    BY <1>1, <2>1, GoFacts DEF Stages
  <2>3. Has("write") = {}
    BY <1>5, NamesAre, ArchiveFacts
  <2>4. Has("read")' = Has("read")
    BY <1>1, NamesAre, ArchivesSame
  <2>5. DeleteWriteOk'
    BY <1>1, <1>2, <1>3, <2>3, <2>4 DEF DeleteWriteOk, MapWriteOk, StartOk
  <2> QED BY <2>2, <2>5 DEF StageOk, At
<1> QED BY <1>4, <1>5

\* A stage before anything is appended has the same archives.
LEMMA MergeKept ==
  ASSUME UNCHANGED <<path, data, build, lost, disturbed>>
  PROVE  /\ MergeOk => MergeOk'
         /\ WriteOk => WriteOk'
         /\ MergeValid <=> MergeValid'
<1>1. \A n \in Names : Archive(n)' = Archive(n) /\ Has(n)' = Has(n) /\ path'[n] = path[n]
  BY ArchivesSame
<1>2. /\ Archive("write")' = Archive("write") /\ Archive("merge")' = Archive("merge")
      /\ Has("merge")' = Has("merge")
  BY <1>1, NamesAre
<1>3. (WriteOk <=> WriteOk') /\ (MergeValid <=> MergeValid')
  BY DEF WriteOk, MergeValid, IsValid
<1> QED BY <1>2, <1>3 DEF MergeOk

LEMMA OpenMergeStage ==
  ASSUME TypeInv, NEW p \in Processes, OpenMerge(p), StageOk(p)
  PROVE  StageOk(p)'
<1> DEFINE f == path["merge"]
<1>1. /\ At(p, "open_merge") /\ UNCHANGED <<path, data, build>> /\ promised' = promised
      /\ lost' = lost /\ disturbed' = disturbed /\ PathOk /\ ProcsOk
  BY DEF OpenMerge, history, TypeInv
<1>2. OpenMergeOk(p) /\ MergeOk /\ Mapped(p)
  BY <1>1 DEF StageOk, OpenMergeOk
<1>3. f # None
  BY <1>2 DEF MergeOk
<1>4. MergeOk' /\ WriteOk' /\ (MergeValid <=> MergeValid')
  BY <1>1, <1>2, MergeKept DEF MergeOk
<1>5. /\ Archive("write")' = Archive("write") /\ Has("write")' = Has("write")
      /\ Archive("merge")' = Archive("merge") /\ Has("merge")' = Has("merge")
  BY <1>1, NamesAre, ArchivesSame
<1>6. CASE IsValid(data[f])
  <2>1. f \in Files
    BY <1>1, <1>3, NamesAre DEF PathOk
  <2>2. proc' = [proc EXCEPT ![p].pc = "parse", ![p].file = f]
    BY <1>3, <1>6 DEF OpenMerge
  <2>3. proc'[p].pc = "parse" /\ proc'[p].file = f /\ proc'[p].write_map = proc[p].write_map
    BY <1>1, <2>1, <2>2, OpenMergeFields
  <2>4. Mapped(p)'
    BY <1>2, <1>4, <1>5, <2>3 DEF Mapped
  <2>5. OpenMergeOk(p)'
    BY <1>1, <1>2, <1>4, <1>5, <2>4 DEF OpenMergeOk
  <2>6. MergeValid'
    BY <1>4, <1>6 DEF MergeValid
  <2>7. ParseOk(p)'
    BY <1>1, <2>3, <2>5, <2>6 DEF ParseOk
  <2> QED BY <2>3, <2>7 DEF StageOk, At
<1>7. CASE ~IsValid(data[f])
  <2>1. Go(p, "drop_read")
    BY <1>3, <1>7 DEF OpenMerge
  <2>2. proc'[p].pc = "drop_read"
    BY <1>1, <2>1, GoFacts DEF Stages
  <2>3. ~MergeValid
    BY <1>7 DEF MergeValid
  <2>4. Has("merge") = {}
    BY <1>3, <1>7, NamesAre, ArchiveFacts
  <2>5. DropReadOk(p)'
    BY <1>1, <1>2, <1>4, <1>5, <2>3, <2>4 DEF DropReadOk, MergeOk, OpenMergeOk
  <2> QED BY <2>2, <2>5 DEF StageOk, At
<1> QED BY <1>6, <1>7

LEMMA ParseStage ==
  ASSUME TypeInv, TypeInv', NEW p \in Processes, Parse(p), StageOk(p)
  PROVE  StageOk(p)'
<1> DEFINE f == path["merge"]
<1>1. /\ At(p, "parse") /\ UNCHANGED <<path, data, build>> /\ promised' = promised
      /\ lost' = lost /\ disturbed' = disturbed /\ PathOk /\ ProcsOk
  BY DEF Parse, history, TypeInv
<1>2. /\ ParseOk(p) /\ OpenMergeOk(p) /\ MergeOk /\ Mapped(p) /\ MergeValid
      /\ proc[p].file = f /\ f # None /\ IsValid(data[f])
  BY <1>1 DEF StageOk, ParseOk, OpenMergeOk, MergeOk, MergeValid
<1>3. MergeOk' /\ WriteOk' /\ MergeValid'
  BY <1>1, <1>2, MergeKept DEF MergeOk
<1>4. /\ Archive("write")' = Archive("write") /\ Has("write")' = Has("write")
      /\ Archive("merge")' = Archive("merge") /\ Has("merge")' = Has("merge")
  BY <1>1, NamesAre, ArchivesSame
<1>5. /\ proc[p].written = 0 /\ proc[p].buffer = <<>>
  BY <1>1 DEF ProcsOk, ProcOk, At
<1>6. f \in Files
  BY <1>1, <1>2, NamesAre DEF PathOk
<1>7. data[f] \in Seq(Entries)
  BY <1>6 DEF TypeInv, FilesOk
<1>8. PICK s \in Seq(Entries) : s = Whole(data[f])
  BY <1>7, WholeIsSeq
<1>9. proc' = [proc EXCEPT ![p].pc = "append", ![p].map = Range(s), ![p].written = Len(s)]
  BY <1>2, <1>8 DEF Parse
<1>10. /\ proc'[p].pc = "append" /\ proc'[p].file = f /\ proc'[p].written = Len(s)
       /\ proc'[p].buffer = <<>> /\ proc'[p].map = Range(s) /\ proc'[p].write_map = proc[p].write_map
  BY <1>1, <1>2, <1>5, <1>9, ParseFields
<1>11. /\ Archive("merge") = s /\ s # <<>> /\ Head(s) = Header(build)
  BY <1>2, <1>8, NamesAre, ArchiveFacts
<1>12. Has("merge") = Range(s)
  BY <1>11 DEF Has
<1>13. Len(s) \in Nat /\ Len(s) >= 1 /\ s[1] = Header(build) /\ Header(build) \in Range(s)
  <2>1. Head(s) = s[1] /\ Range(s) = {Head(s)} \cup Range(Tail(s))
    BY <1>11, TailFacts
  <2>2. Len(s) \in Nat /\ (s # <<>> <=> Len(s) >= 1)
    BY SeqFacts
  <2> QED BY <1>11, <2>1, <2>2
\* What was written is what was parsed.
<1>14. /\ \A k \in 1 .. Len(s) : data[f][k] # Torn /\ data[f][k] = s[k]
       /\ Len(s) < Len(data[f]) => data[f][Len(s) + 1] = Torn
  <2>1. PICK m \in 0 .. Len(data[f]) :
          /\ Whole(data[f]) = SubSeq(data[f], 1, m)
          /\ \A k \in 1 .. m : data[f][k] # Torn
          /\ m < Len(data[f]) => data[f][m + 1] = Torn
    BY <1>7, WholeFacts
  <2>2. Len(SubSeq(data[f], 1, m)) = m /\ \A k \in 1 .. m : SubSeq(data[f], 1, m)[k] = data[f][k]
    BY <1>7, PrefixFacts
  <2>3. Len(s) = m /\ \A k \in 1 .. m : s[k] = data[f][k]
    BY <1>8, <2>1, <2>2
  <2> QED BY <2>1, <2>3
<1>15. Stream(p)' = s
  <2>1. TypeInv' => (\A q \in Processes : proc[q].file # None => StreamIs(q))'
    BY StreamNext
  <2>2. StreamIs(p)'
    BY <1>2, <1>10, <2>1
  <2>3. /\ Stream(p)' \in Seq(Entries) /\ Len(Stream(p)') = Len(s) + Len(<<>>)
        /\ \A k \in 1 .. Len(s) : Stream(p)'[k] = data[f][k]
    BY <1>1, <1>10, <2>2 DEF StreamIs
  <2>4. Len(Stream(p)') = Len(s)
    BY <1>13, <2>3
  <2>5. \A k \in 1 .. Len(s) : Stream(p)'[k] = s[k]
    BY <1>14, <2>3
  <2> QED BY <2>3, <2>4, <2>5, SeqEqual
<1>16. OnFile(p)'
  BY <1>1, <1>10, <1>11, <1>13, <1>14, <1>15 DEF OnFile
<1> DEFINE w == Archive("write")
<1>17. /\ w \in Seq(Entries) /\ w # <<>> /\ Head(w) = Header(build) /\ proc[p].write_map = Tail(w)
       /\ Has("write") = {Header(build)} \cup Range(Tail(w))
  BY <1>2, NamesAre, ArchiveFacts DEF Mapped, WriteOk
<1>18. ~disturbed => Closed(s, lost) /\ Closed(Tail(w), Range(s) \cup lost)
  <2> HAVE ~disturbed
  <2>1. Closed(s, lost) /\ Closed(w, Range(s) \cup lost)
    BY <1>2, <1>11, <1>12 DEF MergeOk
  <2> HIDE DEF w
  <2>2. Closed(Tail(w), (Range(s) \cup lost) \cup {Header(build)})
    BY <1>17, <2>1, ClosedTail
  <2>3. (Range(s) \cup lost) \cup {Header(build)} \subseteq Range(s) \cup lost
    BY <1>13
  <2> QED BY <2>1, <2>2, <2>3, ClosedMore
<1>19. promised \subseteq Range(s) \cup Range(Tail(w))
  <2>1. promised \subseteq Has("merge") \cup Has("write")
    BY <1>2 DEF OpenMergeOk
  <2> QED BY <1>12, <1>13, <1>17, <2>1
<1>20. AppendOk(p)'
  <2>1. Range(Tail(w)) \subseteq Has("write") /\ Has("write") \subseteq Range(s) \cup Range(Tail(w))
    BY <1>13, <1>17
  <2>2. proc'[p].write_map = Tail(w)
    BY <1>10, <1>17
  <2> HIDE DEF w
  <2> QED BY <1>1, <1>3, <1>4, <1>10, <1>13, <1>15, <1>16, <1>18, <1>19, <2>1, <2>2 DEF AppendOk
<1> QED BY <1>10, <1>20 DEF StageOk, At

LEMMA MergeEntryStage ==
  ASSUME TypeInv, TypeInv', NEW p \in Processes, MergeEntry(p), StageOk(p)
  PROVE  StageOk(p)'
<1> DEFINE e == Head(proc[p].write_map)
           r == Tail(proc[p].write_map)
           s == Stream(p)
           u == Stream(p)'
           f == proc[p].file
           w == proc[p].written
           b == proc[p].buffer
           c == proc'[p].buffer
<1>1. /\ At(p, "append") /\ UNCHANGED <<path, data, build>> /\ promised' = promised
      /\ lost' = lost /\ disturbed' = disturbed /\ PathOk /\ ProcsOk /\ proc[p].write_map # <<>>
      /\ proc' = [proc EXCEPT ![p].write_map = Tail(@), ![p].map = @ \cup {Head(proc[p].write_map)},
                              ![p].buffer = IF Head(proc[p].write_map) \in proc[p].map THEN @
                                            ELSE Append(@, Head(proc[p].write_map))]
  BY DEF MergeEntry, history, TypeInv
<1>2. /\ AppendOk(p) /\ MergeOk /\ MergeValid
  BY <1>1 DEF StageOk, AppendOk
<1>3. MergeOk' /\ WriteOk' /\ MergeValid'
  BY <1>1, <1>2, MergeKept DEF MergeOk
<1>4. Has("write")' = Has("write")
  BY <1>1, NamesAre, ArchivesSame
<1>5. /\ proc'[p].pc = "append" /\ proc'[p].file = f /\ proc'[p].written = w
      /\ c = IF e \in proc[p].map THEN b ELSE Append(b, e)
      /\ proc'[p].write_map = r /\ proc'[p].map = proc[p].map \cup {e}
  <2>1. proc[p].pc = "append"
    BY <1>1 DEF At
  <2> QED BY <1>1, <2>1, MergeEntryFields
<1>6. /\ f # None /\ proc[p].write_map \in Seq(Links) /\ b \in Seq(Entries) /\ w \in Nat
  <2>1. proc[p] \in ProcType /\ ProcOk(proc[p]) /\ proc[p].pc = "append"
    BY <1>1 DEF ProcsOk, At
  <2> QED BY <2>1 DEF ProcType, ProcOk
<1>7. /\ r \in Seq(Links) /\ Range(proc[p].write_map) = {e} \cup Range(r) /\ e \in Links
  <2>1. /\ Tail(proc[p].write_map) \in Seq(Links)
        /\ Range(proc[p].write_map) = {Head(proc[p].write_map)} \cup Range(Tail(proc[p].write_map))
    BY <1>1, <1>6, TailFacts
  <2>2. Range(proc[p].write_map) \subseteq Links
    BY <1>6, SeqFacts
  <2> QED BY <2>1, <2>2
<1>8. e \in Entries
  BY <1>7 DEF Entries
<1>9. s \in Seq(Entries) /\ StreamIs(p) /\ Len(s) = w + Len(b)
  BY <1>6, StreamFacts, StreamAlways
<1>10. StreamIs(p)'
  <2>1. TypeInv' => (\A q \in Processes : proc[q].file # None => StreamIs(q))'
    BY StreamNext
  <2> QED BY <1>5, <1>6, <2>1
<1>11. u = IF e \in proc[p].map THEN s ELSE Append(s, e)
  <2>1. /\ u \in Seq(Entries) /\ Len(u) = w + Len(c)
        /\ \A k \in 1 .. w : u[k] = data[f][k]
        /\ \A k \in 1 .. Len(c) : u[w + k] = c[k]
    BY <1>1, <1>5, <1>10 DEF StreamIs
  <2>2. /\ \A k \in 1 .. w : s[k] = data[f][k]
        /\ \A k \in 1 .. Len(b) : s[w + k] = b[k]
    BY <1>9 DEF StreamIs
  <2>3. CASE e \in proc[p].map
    <3>1. c = b
      BY <1>5, <2>3
    <3>2. /\ data' = data /\ proc'[p].file = proc[p].file /\ proc'[p].written = proc[p].written
          /\ proc'[p].buffer = proc[p].buffer
      BY <1>1, <1>5, <3>1
    <3>3. Stream(p)' = Stream(p)
      BY <3>2, StreamSame
    <3> QED BY <2>3, <3>3
  <2>4. CASE e \notin proc[p].map
    <3>1. c = Append(b, e)
      BY <1>5, <2>4
    <3>2. /\ Len(c) = Len(b) + 1 /\ \A k \in 1 .. Len(b) : c[k] = b[k]
          /\ c[Len(b) + 1] = e
      BY <1>6, <1>8, <3>1, AppendFacts
    <3>3. /\ Append(s, e) \in Seq(Entries) /\ Len(Append(s, e)) = Len(s) + 1
          /\ \A k \in 1 .. Len(s) : Append(s, e)[k] = s[k]
          /\ Append(s, e)[Len(s) + 1] = e
      BY <1>8, <1>9, AppendFacts
    <3>4. Len(b) \in Nat
      BY <1>6, SeqFacts
    <3> HIDE DEF s, u, f, w, b, c, e
    <3>5. Len(u) = Len(Append(s, e))
      BY <1>6, <1>9, <2>1, <3>2, <3>3, <3>4
    <3>6. ASSUME NEW k \in 1 .. Len(u)  PROVE u[k] = Append(s, e)[k]
      <4>1. CASE k \in 1 .. w
        <5>1. k \in 1 .. Len(s)
          BY <1>6, <1>9, <3>4, <4>1
        <5> QED BY <2>1, <2>2, <3>3, <4>1, <5>1
      <4>2. CASE k \notin 1 .. w
        <5>1. PICK j \in Int : j = k - w
          BY <1>6
        <5>2. j \in 1 .. Len(c) /\ k = w + j
          BY <1>6, <2>1, <3>2, <3>4, <4>2, <5>1
        <5>3. u[k] = c[j]
          BY <2>1, <5>2
        <5>4. CASE j \in 1 .. Len(b)
          <6>1. k \in 1 .. Len(s) /\ s[k] = b[j]
            BY <1>6, <1>9, <2>2, <3>4, <5>2, <5>4
          <6> QED BY <3>2, <3>3, <5>3, <5>4, <6>1
        <5>5. CASE j \notin 1 .. Len(b)
          <6>1. j = Len(b) + 1 /\ k = Len(s) + 1
            BY <1>6, <1>9, <3>2, <3>4, <5>2, <5>5
          <6> QED BY <3>2, <3>3, <5>3, <6>1
        <5> QED BY <5>4, <5>5
      <4> QED BY <4>1, <4>2
    <3>7. u = Append(s, e)
      BY <2>1, <3>3, <3>5, <3>6, SeqEqual
    <3> QED BY <2>4, <3>7
  <2> QED BY <2>3, <2>4
<1>12. /\ OnFile(p) /\ w >= 1 /\ proc[p].map = Range(s)
       /\ Range(proc[p].write_map) \subseteq Has("write")
       /\ Has("write") \subseteq proc[p].map \cup Range(proc[p].write_map)
       /\ promised \subseteq proc[p].map \cup Range(proc[p].write_map)
       /\ ~disturbed => Closed(s, lost) /\ Closed(proc[p].write_map, Range(s) \cup lost)
       /\ proc[p].file = path["merge"]
  BY <1>2 DEF AppendOk
<1>13. Range(u) = Range(s) \cup {e}
  <2>1. CASE e \in proc[p].map
    BY <1>11, <1>12, <2>1
  <2>2. CASE e \notin proc[p].map
    BY <1>8, <1>9, <1>11, <2>2, RangeAppend
  <2> QED BY <2>1, <2>2
<1>14. OnFile(p)'
  <2>1. /\ \A k \in 1 .. w : data[f][k] # Torn
        /\ w < Len(data[f]) => data[f][w + 1] = Torn
        /\ s # <<>> /\ s[1] = Header(build)
    BY <1>12 DEF OnFile
  <2>2. Len(s) >= 1 /\ Len(s) \in Nat
    BY <1>9, <2>1, SeqFacts
  <2>3. u # <<>> /\ u[1] = s[1]
    <3>1. CASE e \in proc[p].map
      BY <1>11, <2>1, <3>1
    <3>2. CASE e \notin proc[p].map
      <4>1. u = Append(s, e)
        BY <1>11, <3>2
      <4>2. /\ Append(s, e) \in Seq(Entries) /\ Len(Append(s, e)) = Len(s) + 1
            /\ \A k \in 1 .. Len(s) : Append(s, e)[k] = s[k]
        BY <1>8, <1>9, AppendFacts
      <4>3. 1 \in 1 .. Len(s) /\ Len(s) + 1 >= 1
        BY <2>2
      <4>4. Append(s, e) # <<>>
        BY <4>2, <4>3, SeqFacts
      <4> QED BY <4>1, <4>2, <4>3, <4>4
    <3> QED BY <3>1, <3>2
  <2> QED BY <1>1, <1>5, <2>1, <2>3 DEF OnFile
<1>15. ~disturbed => Closed(u, lost) /\ Closed(r, Range(u) \cup lost)
  <2> HAVE ~disturbed
  <2>1. /\ Closed(s, lost) /\ Closed(proc[p].write_map, Range(s) \cup lost)
    BY <1>12
  <2>2. /\ Closed(Tail(proc[p].write_map), (Range(s) \cup lost) \cup {Head(proc[p].write_map)})
        /\ Head(proc[p].write_map) \in Pipelines => CodeOf[Head(proc[p].write_map)] \subseteq Range(s) \cup lost
    BY <1>1, <1>6, <2>1, ClosedTail
  <2>3. (Range(s) \cup lost) \cup {Head(proc[p].write_map)} \subseteq Range(u) \cup lost
    BY <1>13 DEF e
  <2>4. Closed(r, Range(u) \cup lost)
    BY <2>2, <2>3, ClosedMore DEF r
  <2> HIDE DEF s, e, u
  <2>5. CASE e \in proc[p].map
    BY <1>11, <2>1, <2>4, <2>5
  <2>6. CASE e \notin proc[p].map
    <3>1. e \in Pipelines => CodeOf[e] \subseteq lost \cup Range(s)
      BY <2>2 DEF e
    <3>2. Closed(Append(s, e), lost)
      BY <1>8, <1>9, <2>1, <3>1, ClosedAppend
    <3> QED BY <1>11, <2>4, <2>6, <3>2
  <2> QED BY <2>5, <2>6
<1>16. AppendOk(p)'
  <2>1. Range(r) \subseteq Has("write") /\ Has("write") \subseteq Range(u) \cup Range(r)
    BY <1>7, <1>12, <1>13
  <2>2. promised \subseteq Range(u) \cup Range(r)
    BY <1>7, <1>12, <1>13
  <2>3. proc'[p].map = Range(u)
    BY <1>5, <1>12, <1>13
  <2>4. path'["merge"] = path["merge"] /\ proc'[p].file = path["merge"] /\ proc'[p].written >= 1
    BY <1>1, <1>5, <1>12
  <2> HIDE DEF f, w, b, c, e, s
  <2> QED BY <1>1, <1>3, <1>4, <1>5, <1>14, <1>15, <2>1, <2>2, <2>3, <2>4 DEF AppendOk
<1> QED BY <1>5, <1>16 DEF StageOk, At

-----------------------------------------------------------------------------
(* The buffer is written to the file.                                      *)

LEMMA FlushedArchives ==
  ASSUME TypeInv, NEW p \in Processes, proc[p].file # None, OnFile(p),
         NEW m \in Names, path[m] = proc[p].file,
         NEW n \in 0 .. Len(proc[p].buffer), NEW t \in Torns,
         data' = Written(p, Flushed(p, n, t)), UNCHANGED <<path, build>>
  PROVE  /\ Archive(m)' = SubSeq(Stream(p), 1, proc[p].written + n)
         /\ proc[p].written + n \in 0 .. Len(Stream(p))
         /\ Has(m) \subseteq Has(m)' /\ Has(m)' \subseteq Range(Stream(p))
         /\ IsValid(data'[path'[m]]) <=> proc[p].written + n >= 1
         /\ n = Len(proc[p].buffer) => Archive(m)' = Stream(p) /\ Has(m)' = Range(Stream(p))
<1> DEFINE f == proc[p].file
           w == proc[p].written
           s == Stream(p)
<1>1. /\ Readable(data'[f]) = SubSeq(s, 1, w + n) /\ w + n \in 0 .. Len(s)
      /\ IsValid(data'[f]) <=> w + n >= 1
  BY FlushedArchive
<1>2. Archive(m) = SubSeq(s, 1, w) /\ w \in 0 .. Len(s)
  BY OnFileArchive
<1>3. s \in Seq(Entries) /\ Len(s) = w + Len(proc[p].buffer)
  BY StreamFacts
<1>4. path'[m] = f /\ f # None /\ build' = build
  OBVIOUS
<1>5. Archive(m)' = IF path'[m] = None THEN <<>> ELSE Readable(data'[path'[m]])
  BY <1>4, ArchiveNext
<1>6. Archive(m)' = SubSeq(s, 1, w + n)
  BY <1>1, <1>4, <1>5
<1>7. w \in Nat /\ proc[p].buffer \in Seq(Entries)
  BY DEF TypeInv, ProcsOk, ProcType
<1>8. Len(proc[p].buffer) \in Nat /\ Len(s) \in Nat /\ n \in 0 .. Len(proc[p].buffer)
  BY <1>3, <1>7, SeqFacts
<1>9. w + n \in w .. Len(s) /\ Len(s) \in w + n .. Len(s)
  BY <1>3, <1>7, <1>8
<1> HIDE DEF f, w, s
<1>10. /\ Range(SubSeq(s, 1, w)) \subseteq Range(SubSeq(s, 1, w + n))
  BY <1>2, <1>3, <1>9, PrefixRange
<1>11. Range(SubSeq(s, 1, w + n)) \subseteq Range(s) /\ SubSeq(s, 1, Len(s)) = s
  BY <1>1, <1>3, <1>9, PrefixRange
<1>12. Has(m) = Range(SubSeq(s, 1, w))
  BY <1>2 DEF Has
<1>13. Has(m)' = Range(SubSeq(s, 1, w + n))
  BY <1>6 DEF Has
<1>14. n = Len(proc[p].buffer) => w + n = Len(s)
  BY <1>3
<1>15. n = Len(proc[p].buffer) => Archive(m)' = s /\ Has(m)' = Range(s)
  BY <1>6, <1>11, <1>13, <1>14
<1> QED BY <1>1, <1>4, <1>6, <1>10, <1>11, <1>12, <1>13, <1>15 DEF f, w, s

LEMMA OtherArchives ==
  ASSUME TypeInv, NEW p \in Processes, proc[p].file # None,
         NEW m \in Names, path[m] = proc[p].file,
         NEW n \in 0 .. Len(proc[p].buffer), NEW t \in Torns,
         data' = Written(p, Flushed(p, n, t)), UNCHANGED <<path, build>>
  PROVE  \A k \in Names \ {m} :
           /\ path[k] # None => data'[path[k]] = data[path[k]]
           /\ Archive(k)' = Archive(k) /\ Has(k)' = Has(k)
<1> TAKE k \in Names \ {m}
<1>1. \A g \in Files \ {proc[p].file} : data'[g] = data[g]
  BY WrittenFacts
<1>2. path[m] # None => path[m] # path[k]
  BY DEF TypeInv, PathOk
<1>3. path[k] # None => path[k] \in Files
  BY DEF TypeInv, PathOk
<1>4. path[k] # None => data'[path[k]] = data[path[k]]
  BY <1>1, <1>2, <1>3
<1>5. path'[k] = path[k] /\ build' = build
  OBVIOUS
<1>6. Archive(k)' = Archive(k) /\ Has(k)' = Has(k)
  BY <1>4, <1>5, ArchiveKept
<1> QED BY <1>4, <1>6

\* The archive of the merge when a part of the buffer was written.
LEMMA MergeWritten ==
  ASSUME TypeInv, NEW p \in Processes, proc[p].file # None, AppendOk(p),
         NEW n \in 0 .. Len(proc[p].buffer), NEW t \in Torns,
         data' = Written(p, Flushed(p, n, t)), UNCHANGED <<path, build, lost, disturbed>>
  PROVE  /\ MergeOk' /\ MergeValid' /\ Has("write")' = Has("write")
         /\ n = Len(proc[p].buffer) => Has("merge")' = Range(Stream(p))
<1> DEFINE s == Stream(p)
           w == proc[p].written
<1>1. /\ MergeOk /\ MergeValid /\ OnFile(p) /\ w >= 1 /\ proc[p].file = path["merge"]
      /\ ~disturbed => Closed(s, lost)
  BY DEF AppendOk
<1>2. /\ Archive("merge")' = SubSeq(s, 1, w + n) /\ w + n \in 0 .. Len(s)
      /\ Has("merge") \subseteq Has("merge")'
      /\ IsValid(data'[path'["merge"]]) <=> w + n >= 1
      /\ n = Len(proc[p].buffer) => Has("merge")' = Range(s)
  BY <1>1, NamesAre, FlushedArchives
<1>3. "write" \in Names \ {"merge"} /\ "merge" \in Names
  BY NamesAre
<1>4. /\ path["write"] # None => data'[path["write"]] = data[path["write"]]
      /\ Archive("write")' = Archive("write") /\ Has("write")' = Has("write")
  BY <1>1, <1>3, OtherArchives
<1>5. s \in Seq(Entries) /\ w \in Nat /\ proc[p].buffer \in Seq(Entries)
  BY StreamFacts DEF TypeInv, ProcsOk, ProcType
<1>6. Len(proc[p].buffer) \in Nat
  BY <1>5, SeqFacts
<1>7. w + n >= 1
  BY <1>1, <1>5, <1>6
<1>8. MergeValid'
  BY <1>2, <1>7 DEF MergeValid, IsValid
<1>9. WriteOk'
  BY <1>1, <1>4 DEF MergeOk, WriteOk, IsValid
<1>10. ~disturbed => Closed(SubSeq(s, 1, w + n), lost)
  <2> HIDE DEF s, w
  <2> QED BY <1>1, <1>2, <1>5, ClosedPrefix
<1>11. ~disturbed => Closed(Archive("write"), Has("merge")' \cup lost)
  BY <1>1, <1>2, ClosedMore DEF MergeOk
<1>12. MergeOk'
  BY <1>1, <1>2, <1>4, <1>9, <1>10, <1>11 DEF MergeOk
<1> QED BY <1>2, <1>4, <1>8, <1>12

LEMMA MergeStage ==
  ASSUME TypeInv, NEW p \in Processes, Merge(p), StageOk(p)
  PROVE  StageOk(p)'
<1>1. /\ At(p, "append") /\ UNCHANGED <<path, build, lost, disturbed>> /\ promised' = promised
      /\ ProcsOk /\ proc[p].write_map = <<>> /\ Close(p, "replace")
      /\ data' = Written(p, proc[p].buffer)
  BY DEF Merge, history, TypeInv, Close
<1>2. AppendOk(p)
  BY <1>1 DEF StageOk
<1>3. proc[p].file # None
  BY <1>1 DEF ProcsOk, ProcOk, At
<1>4. /\ proc[p].buffer = Flushed(p, Len(proc[p].buffer), <<>>)
      /\ Len(proc[p].buffer) \in 0 .. Len(proc[p].buffer) /\ <<>> \in Torns
  BY AllFlushed DEF Torns
<1>5. data' = Written(p, Flushed(p, Len(proc[p].buffer), <<>>))
  BY <1>1, <1>4
<1>6. /\ MergeOk' /\ MergeValid' /\ Has("merge")' = Range(Stream(p))
  BY <1>1, <1>2, <1>3, <1>4, <1>5, MergeWritten
<1>7. promised \subseteq proc[p].map \cup Range(proc[p].write_map) /\ proc[p].map = Range(Stream(p))
  BY <1>2 DEF AppendOk
<1>8. Range(proc[p].write_map) = {}
  BY <1>1 DEF Range
<1>9. ReplaceOk'
  BY <1>1, <1>6, <1>7, <1>8 DEF ReplaceOk
<1>10. proc'[p].pc = "replace"
  BY <1>1, CloseFields DEF Stages
<1> QED BY <1>9, <1>10 DEF StageOk, At

LEMMA CancelMergeStage ==
  ASSUME TypeInv, NEW p \in Processes, CancelMerge(p), StageOk(p)
  PROVE  StageOk(p)'
<1>1. /\ At(p, "parse") \/ At(p, "append")
      /\ UNCHANGED <<path, build, lost, disturbed>> /\ promised' = promised
      /\ ProcsOk /\ proc[p].closing /\ Close(p, "put_back")
      /\ data' = Written(p, proc[p].buffer)
  BY DEF CancelMerge, history, TypeInv, Close
<1>2. proc'[p].pc = "put_back" /\ proc'[p].closing = proc[p].closing
  BY <1>1, CloseFields DEF Stages
<1>3. proc[p].file # None
  BY <1>1 DEF ProcsOk, ProcOk, At
<1>4. CASE At(p, "parse")
  <2>1. ParseOk(p) /\ OpenMergeOk(p) /\ MergeOk /\ MergeValid
    BY <1>4 DEF StageOk, ParseOk, OpenMergeOk
  <2>2. proc[p].buffer = <<>>
    BY <1>1, <1>4 DEF ProcsOk, ProcOk, At
  <2>3. data' = [data EXCEPT ![proc[p].file] = data[proc[p].file]]
    BY <1>1, <2>2 DEF Written, FileWith
  <2>4. data' = data
    BY <2>3 DEF TypeInv, FilesOk
  <2>5. MergeOk' /\ MergeValid'
    BY <1>1, <2>1, <2>4, MergeKept
  <2>6. Has("merge")' = Has("merge") /\ Has("write")' = Has("write")
    BY <1>1, <2>4, NamesAre, ArchivesSame
  <2>7. PutBackOk(p)'
    BY <1>1, <1>2, <2>1, <2>5, <2>6 DEF PutBackOk, OpenMergeOk
  <2> QED BY <1>2, <2>7 DEF StageOk, At
<1>5. CASE At(p, "append")
  <2>1. AppendOk(p)
    BY <1>5 DEF StageOk
  <2>2. /\ proc[p].buffer = Flushed(p, Len(proc[p].buffer), <<>>)
        /\ Len(proc[p].buffer) \in 0 .. Len(proc[p].buffer) /\ <<>> \in Torns
    BY AllFlushed DEF Torns
  <2>3. data' = Written(p, Flushed(p, Len(proc[p].buffer), <<>>))
    BY <1>1, <2>2
  <2>4. /\ MergeOk' /\ MergeValid' /\ Has("merge")' = Range(Stream(p)) /\ Has("write")' = Has("write")
    BY <1>1, <1>3, <2>1, <2>2, <2>3, MergeWritten
  <2>5. /\ promised \subseteq proc[p].map \cup Range(proc[p].write_map) /\ proc[p].map = Range(Stream(p))
        /\ Range(proc[p].write_map) \subseteq Has("write")
    BY <2>1 DEF AppendOk
  <2>6. PutBackOk(p)'
    BY <1>1, <1>2, <2>4, <2>5 DEF PutBackOk
  <2> QED BY <1>2, <2>6 DEF StageOk, At
<1> QED BY <1>1, <1>4, <1>5

LEMMA WriteBufferStage ==
  ASSUME TypeInv, TypeInv', NEW p \in Processes, WriteBuffer(p), StageOk(p)
  PROVE  StageOk(p)'
<1>1. PICK n \in 0 .. Len(proc[p].buffer), t \in Torns :
         /\ proc[p].pc \in {"append", "loop"} /\ proc[p].buffer # <<>>
         /\ data' = Written(p, Flushed(p, n, t))
         /\ proc' = [proc EXCEPT ![p].written = @ + n,
                                 ![p].buffer = SubSeq(@, n + 1, Len(@))]
         /\ UNCHANGED <<path, build, promised, lost, disturbed>>
  BY WriteBufferSteps
<1>2. /\ proc'[p].pc = proc[p].pc /\ proc'[p].closing = proc[p].closing
      /\ proc'[p].items = proc[p].items /\ proc'[p].library = proc[p].library
      /\ proc'[p].attempted = proc[p].attempted /\ proc'[p].file = proc[p].file
      /\ proc'[p].written = proc[p].written + n
      /\ proc'[p].buffer = SubSeq(proc[p].buffer, n + 1, Len(proc[p].buffer))
      /\ proc'[p].write_map = proc[p].write_map /\ proc'[p].map = proc[p].map
      /\ proc'[p].setup = proc[p].setup
  BY <1>1, WriteBufferFields
<1>3. /\ proc[p].file # None /\ proc[p].written \in Nat /\ proc[p].buffer \in Seq(Entries)
  BY <1>1 DEF TypeInv, ProcsOk, ProcOk, ProcType
<1>4. /\ data' = Written(p, Flushed(p, n, t)) /\ UNCHANGED <<path, build, lost, disturbed>>
      /\ build' = build /\ promised' = promised /\ lost' = lost /\ disturbed' = disturbed /\ path' = path
  BY <1>1
<1>5. Len(proc[p].buffer) \in Nat
  BY <1>3, SeqFacts
<1>6. ASSUME OnFile(p)  PROVE Stream(p)' = Stream(p) /\ OnFile(p)'
  BY <1>2, <1>3, <1>4, <1>6, StreamKept
<1>7. CASE proc[p].pc = "append"
  <2>1. AppendOk(p)
    BY <1>7 DEF StageOk, At
  <2>2. Stream(p)' = Stream(p) /\ OnFile(p)'
    BY <1>6, <2>1 DEF AppendOk
  <2>3. MergeOk' /\ MergeValid' /\ Has("write")' = Has("write")
    BY <1>3, <1>4, <2>1, MergeWritten
  <2>4. proc'[p].written >= 1
    BY <1>2, <1>3, <1>5, <2>1 DEF AppendOk
  <2>5. AppendOk(p)'
    BY <1>2, <1>4, <2>1, <2>2, <2>3, <2>4 DEF AppendOk
  <2> QED BY <1>2, <1>7, <2>5 DEF StageOk, At
<1>8. CASE proc[p].pc = "loop"
  <2>1. LoopOk(p) /\ StartOk /\ path["merge"] = None /\ proc[p].file = path["write"] /\ OnFile(p)
        /\ (~disturbed => Closed(Stream(p), Has("read") \cup lost))
    BY <1>3, <1>8 DEF StageOk, At, LoopOk
  <2>2. Stream(p)' = Stream(p) /\ OnFile(p)'
    BY <1>6, <2>1
  <2>3. /\ Archive("write")' = SubSeq(Stream(p), 1, proc[p].written + n)
        /\ proc[p].written + n \in 0 .. Len(Stream(p))
        /\ Has("write") \subseteq Has("write")'
    BY <1>3, <1>4, <2>1, NamesAre, FlushedArchives
  <2>4. "read" \in Names \ {"write"} /\ "write" \in Names
    BY NamesAre
  <2>5. Archive("read")' = Archive("read") /\ Has("read")' = Has("read")
    BY <1>3, <1>4, <2>1, <2>4, OtherArchives
  <2>6. ~disturbed => Closed(Archive("write")', Has("read") \cup lost)
    <3>1. Stream(p) \in Seq(Entries)
      BY <1>3, StreamFacts
    <3> QED BY <2>1, <2>3, <3>1, ClosedPrefix
  <2>7. StartOk'
    BY <1>4, <2>1, <2>3, <2>5, <2>6 DEF StartOk, Closed
  <2>8. LoopOk(p)'
    BY <1>2, <1>4, <2>1, <2>2, <2>5, <2>7 DEF LoopOk, Closed
  <2> QED BY <1>2, <1>8, <2>8 DEF StageOk, At
<1> QED BY <1>1, <1>7, <1>8

-----------------------------------------------------------------------------
(* The archives are loaded, and new pipelines are saved.                   *)

LEMMA HeaderIsNoEntry ==
  ASSUME TypeInv
  PROVE  /\ Header(build) \notin Links /\ Header(build) \notin Pipelines /\ Header(build) \notin Code
         /\ Header(build) \in Entries
<1>1. build \in 1 .. MaxBuilds
  BY DEF TypeInv
<1>2. Header(build) \notin Links
  BY <1>1, Kinds
<1>3. Header(build) \in {Header(b) : b \in 1 .. MaxBuilds}
  BY <1>1
<1> QED BY <1>2, <1>3 DEF Links, Entries

LEMMA LoadStage ==
  ASSUME TypeInv, NEW p \in Processes, Load(p), StageOk(p)
  PROVE  StageOk(p)'
<1> DEFINE s == Loaded("read")
           a == Archive("read")
<1>1. /\ At(p, "load") /\ UNCHANGED <<path, data, build>> /\ promised' = promised
      /\ lost' = lost /\ disturbed' = disturbed /\ ProcsOk
  BY DEF Load, history, TypeInv
<1>2. LoadOk(p) /\ StartOk /\ path["merge"] = None
  BY <1>1 DEF StageOk, LoadOk
<1>3. /\ s \in Seq(Links)
      /\ \/ path["read"] # None /\ IsValid(data[path["read"]]) /\ s = Tail(a)
         \/ ~(path["read"] # None /\ IsValid(data[path["read"]])) /\ s = <<>>
  BY NamesAre, LoadedIsSeq
<1>4. /\ proc[p].file = None /\ ~proc[p].attempted
  BY <1>1 DEF ProcsOk, ProcOk, At
<1>5. PICK n \in (IF proc[p].closing THEN 0 ELSE Len(s)) .. Len(s) :
         proc' = [proc EXCEPT ![p].pc = "loop", ![p].setup = ~proc[p].closing,
                              ![p].library = Range(SubSeq(s, 1, n))]
  BY Zenon DEF Load, Loaded
<1>6. n \in 0 .. Len(s) /\ (~proc[p].closing => n = Len(s)) /\ Len(s) \in Nat
  BY <1>3, <1>5, SeqFacts
<1> DEFINE L == Range(SubSeq(s, 1, n))
<1>7. L \in SUBSET Links
  BY <1>3, <1>6, LoadedFacts
<1>8. /\ proc'[p].pc = "loop" /\ proc'[p].closing = proc[p].closing /\ proc'[p].library = L
      /\ proc'[p].attempted = proc[p].attempted /\ proc'[p].file = proc[p].file
      /\ proc'[p].setup = ~proc[p].closing
  BY <1>1, <1>5, <1>7, LoadFields
<1>9. /\ Archive("read")' = a /\ Has("read")' = Has("read") /\ StartOk'
  BY <1>1, <1>2, NamesAre, ArchivesSame, StartKept
<1> HIDE DEF s, a
\* What is found is what the archive has, but for its header.
<1>10. /\ Has("read") \subseteq {Header(build)} \cup Range(s) /\ Range(s) \subseteq Has("read")
       /\ ~disturbed => Closed(s, lost \cup {Header(build)})
  <2>1. CASE path["read"] # None /\ IsValid(data[path["read"]]) /\ s = Tail(a)
    <3>1. /\ a \in Seq(Entries) /\ a # <<>> /\ Head(a) = Header(build)
          /\ Has("read") = {Header(build)} \cup Range(Tail(a))
      BY <2>1, NamesAre, ArchiveFacts DEF a
    <3>2. ~disturbed => Closed(a, lost)
      BY <1>2 DEF StartOk, a
    <3>3. ~disturbed => Closed(Tail(a), lost \cup {Header(build)})
      BY <3>1, <3>2, ClosedTail
    <3> QED BY <2>1, <3>1, <3>3
  <2>2. CASE ~(path["read"] # None /\ IsValid(data[path["read"]])) /\ s = <<>>
    <3>1. Has("read") = {}
      BY <2>2, NamesAre, ArchiveFacts
    <3>2. Range(s) = {}
      BY <2>2 DEF Range
    <3> QED BY <2>2, <3>1, <3>2, ClosedEmpty
  <2> QED BY <1>3, <2>1, <2>2
<1>11. L \subseteq Range(s) /\ (n = Len(s) => L = Range(s))
  <2>1. Len(s) \in n .. Len(s)
    BY <1>6
  <2>2. Range(SubSeq(s, 1, n)) \subseteq Range(s) /\ SubSeq(s, 1, Len(s)) = s
    BY <1>3, <1>6, <2>1, PrefixRange
  <2> QED BY <2>2
<1>12. ~disturbed => \A x \in L \cap Pipelines : CodeOf[x] \subseteq L \cup lost
  <2> HAVE ~disturbed
  <2> TAKE x \in L \cap Pipelines
  <2>1. SubSeq(s, 1, n) \in Seq(Links) /\ Closed(s, lost \cup {Header(build)})
    BY <1>3, <1>6, <1>10, PrefixFacts
  <2>2. Closed(SubSeq(s, 1, n), lost \cup {Header(build)})
    BY <1>3, <1>6, <2>1, ClosedPrefix
  <2>3. CodeOf[x] \subseteq (lost \cup {Header(build)}) \cup L
    BY <2>1, <2>2, ClosedFound
  <2>4. CodeOf[x] \subseteq Code /\ Header(build) \notin Code
    BY Kinds, HeaderIsNoEntry
  <2> QED BY <2>3, <2>4
<1>13. ~proc[p].closing => promised \subseteq L
  <2> HAVE ~proc[p].closing
  <2>1. path["write"] = None
    BY <1>2 DEF LoadOk
  <2>2. Has("write") = {}
    BY <2>1, ArchiveNone
  <2>3. promised \subseteq Has("read") /\ promised \subseteq Pipelines
    BY <1>2, <2>2 DEF StartOk, TypeInv
  <2> QED BY <1>6, <1>10, <1>11, <2>3, HeaderIsNoEntry
<1>14. ~proc[p].closing => path["write"] = None
  BY <1>2 DEF LoadOk
<1>15. L \subseteq Has("read")
  BY <1>10, <1>11
<1> HIDE DEF L
<1>16. LoopOk(p)'
  BY <1>1, <1>2, <1>4, <1>8, <1>9, <1>12, <1>13, <1>14, <1>15 DEF LoopOk
<1> QED BY <1>8, <1>16 DEF StageOk, At

\* The library finds what the pipelines that are saved link to.
LEMMA SavedLibrary ==
  ASSUME TypeInv, NEW p \in Processes, Save(p), NEW base,
         \A x \in proc[p].library \cap Pipelines : CodeOf[x] \subseteq proc[p].library \cup base
  PROVE  \A x \in (proc[p].library \cup Range(Saved(p))) \cap Pipelines :
           CodeOf[x] \subseteq (proc[p].library \cup Range(Saved(p))) \cup base
<1> DEFINE h == Head(proc[p].items)
           L == proc[p].library
           G == Range(Saved(p))
<1>1. h \in Pipelines /\ L \subseteq Links
  BY SaveFields DEF TypeInv, ProcsOk, ProcType
<1>2. /\ h \in L \cup G /\ G \subseteq {h} \cup CodeOf[h]
      /\ h \notin L => CodeOf[h] \subseteq L \cup G
  BY <1>1, BlobsFacts DEF Saved
<1>3. \A x \in Pipelines : x \notin CodeOf[h]
  BY <1>1, Kinds
<1> HIDE DEF h, G
<1>4. ASSUME NEW x \in Pipelines, x \in L  PROVE CodeOf[x] \subseteq (L \cup G) \cup base
  BY <1>4
<1>5. ASSUME NEW x \in Pipelines, x \in G, x \notin L  PROVE CodeOf[x] \subseteq (L \cup G) \cup base
  BY <1>2, <1>3, <1>5
<1> QED BY <1>4, <1>5 DEF G

\* What is saved can be appended to what the archives have.
LEMMA SavedClosed ==
  ASSUME TypeInv, NEW p \in Processes, Save(p), NEW base, proc[p].library \subseteq base
  PROVE  Closed(Saved(p), base)
<1>1. Head(proc[p].items) \in Pipelines /\ proc[p].library \subseteq Links
  BY SaveFields DEF TypeInv, ProcsOk, ProcType
<1>2. Closed(Saved(p), proc[p].library)
  BY <1>1, BlobsFacts DEF Saved
<1> QED BY <1>2, ClosedMore

\* The first blob: the file is created.
LEMMA SaveOpens ==
  ASSUME TypeInv, TypeInv', NEW p \in Processes, Save(p), StageOk(p), Opens(p)
  PROVE  LoopOk(p)'
<1> DEFINE H == <<Header(build)>>
           u == Stream(p)'
<1>1. /\ proc[p].pc = "loop" /\ Saved(p) \in Seq(Links) /\ Added(p) \in Seq(Entries)
      /\ path' = [path EXCEPT !["write"] = FreeFile]
      /\ data' = [data EXCEPT ![FreeFile] = <<>>]
      /\ build' = build /\ promised' = promised /\ lost' = lost /\ disturbed' = disturbed
      /\ proc'[p].library = proc[p].library \cup Range(Saved(p))
      /\ proc'[p].attempted = (proc[p].attempted \/ First(p)) /\ proc'[p].file = Target(p)
      /\ proc'[p].written = proc[p].written
      /\ proc'[p].buffer = IF Target(p) = None THEN proc[p].buffer ELSE proc[p].buffer \o Added(p)
      /\ proc'[p].setup = proc[p].setup
  BY SaveFields
<1>2. /\ path["write"] = None /\ ~proc[p].attempted /\ First(p) /\ Target(p) = FreeFile
  BY DEF Opens, First, Target
<1>3. /\ FreeFile \in Files /\ FreeFile # None
      /\ \A n \in Names : path[n] # FreeFile
  BY <1>2, FreeFileFacts
<1>4. LoopOk(p) /\ StartOk /\ path["merge"] = None
  BY <1>1 DEF StageOk, At, LoopOk
<1>5. proc[p].file = None /\ proc[p].written = 0 /\ proc[p].buffer = <<>>
  BY <1>1, <1>2 DEF TypeInv, ProcsOk, ProcOk
<1>6. Stream(p) = <<>>
  BY <1>5 DEF Stream
<1>7. Range(Stream(p)) = {}
  BY <1>6 DEF Range
<1>8. proc[p].library \subseteq Has("read")
  BY <1>2, <1>4, <1>7 DEF LoopOk
<1>9. Added(p) = H \o Saved(p) /\ Saved(p) \in Seq(Entries)
  BY <1>1, AddedFacts
<1>10. H \in Seq(Entries) /\ Len(H) = 1 /\ H[1] = Header(build) /\ Range(H) = {Header(build)}
  BY HeaderIsNoEntry, SingleFacts
<1>11. proc'[p].buffer = H \o Saved(p) /\ proc'[p].file = FreeFile /\ proc'[p].written = 0
  <2>1. proc'[p].buffer = <<>> \o Added(p)
    BY <1>1, <1>2, <1>3, <1>5
  <2>2. <<>> \o Added(p) = Added(p)
    BY <1>1
  <2> QED BY <1>1, <1>2, <1>5, <1>9, <2>1, <2>2
<1> HIDE DEF H
<1>12. /\ H \o Saved(p) \in Seq(Entries) /\ Len(H \o Saved(p)) = 1 + Len(Saved(p))
       /\ (H \o Saved(p))[1] = Header(build)
       /\ Range(H \o Saved(p)) = {Header(build)} \cup Range(Saved(p))
  <2>1. /\ H \o Saved(p) \in Seq(Entries) /\ Len(H \o Saved(p)) = Len(H) + Len(Saved(p))
        /\ \A k \in 1 .. Len(H) : (H \o Saved(p))[k] = H[k]
        /\ Range(H \o Saved(p)) = Range(H) \cup Range(Saved(p))
    BY <1>9, <1>10, ConcatFacts
  <2>2. 1 \in 1 .. Len(H)
    BY <1>10
  <2> QED BY <1>10, <2>1, <2>2
<1>13. u = H \o Saved(p)
  <2>1. TypeInv' => (\A q \in Processes : proc[q].file # None => StreamIs(q))'
    BY StreamNext
  <2>2. StreamIs(p)'
    BY <1>3, <1>11, <2>1
  <2>3. /\ u \in Seq(Entries) /\ Len(u) = 0 + Len(H \o Saved(p))
        /\ \A k \in 1 .. Len(H \o Saved(p)) : u[0 + k] = (H \o Saved(p))[k]
    BY <1>11, <2>2 DEF StreamIs
  <2>4. Len(H \o Saved(p)) \in Nat
    BY <1>12, SeqFacts
  <2> HIDE DEF u
  <2>5. Len(u) = Len(H \o Saved(p)) /\ \A k \in 1 .. Len(H \o Saved(p)) : u[k] = (H \o Saved(p))[k]
    BY <2>3, <2>4
  <2> QED BY <1>12, <2>3, <2>5, SeqEqual
\* The new archive is empty as long as nothing is written.
<1>14. path'["write"] = FreeFile /\ path'["read"] = path["read"] /\ path'["merge"] = path["merge"]
  BY <1>1, NamesAre DEF TypeInv, PathOk
<1>15. data'[FreeFile] = <<>> /\ \A f \in Files \ {FreeFile} : data'[f] = data[f]
  BY <1>1, <1>3 DEF TypeInv, FilesOk
<1>16. Archive("write")' = <<>> /\ Has("write")' = {}
  <2>1. Archive("write")' = IF path'["write"] = None THEN <<>> ELSE Readable(data'[path'["write"]])
    BY <1>1, ArchiveNext
  <2>2. Readable(<<>>) = <<>>
    BY DEF Readable, IsValid
  <2>3. Archive("write")' = <<>>
    BY <1>14, <1>15, <2>1, <2>2
  <2>4. Range(<<>>) = {}
    BY DEF Range
  <2> QED BY <2>3, <2>4 DEF Has
<1>17. Archive("read")' = Archive("read") /\ Has("read")' = Has("read")
  <2>1. path["read"] # None => path["read"] \in Files /\ path["read"] # FreeFile
    BY <1>3, NamesAre DEF TypeInv, PathOk
  <2>2. path["read"] # None => data'[path["read"]] = data[path["read"]]
    BY <1>15, <2>1
  <2> QED BY <1>1, <1>14, <2>2, ArchiveKept
<1>18. Has("write") = {}
  BY <1>2, ArchiveNone
<1>19. StartOk'
  BY <1>1, <1>4, <1>14, <1>16, <1>17, <1>18, ClosedEmpty DEF StartOk
<1>20. u # <<>> /\ u[1] = Header(build)
  <2>1. Len(Saved(p)) \in Nat
    BY <1>1, SeqFacts
  <2>2. Len(H \o Saved(p)) >= 1
    BY <1>12, <2>1
  <2> QED BY <1>12, <1>13, <2>2, SeqFacts
<1>21. OnFile(p)'
  <2>1. /\ \A k \in 1 .. proc'[p].written : data'[proc'[p].file][k] # Torn
        /\ ~(proc'[p].written < Len(data'[proc'[p].file]))
    BY <1>11, <1>15
  <2> QED BY <1>1, <1>20, <2>1 DEF OnFile
<1>22. ~disturbed => Closed(u, Has("read") \cup lost)
  <2>1. Header(build) \notin Pipelines
    BY HeaderIsNoEntry
  <2>2. Closed(H, Has("read") \cup lost)
    BY <2>1, HeaderIsNoEntry, ClosedSingle DEF H
  <2>3. proc[p].library \subseteq (Has("read") \cup lost) \cup Range(H)
    BY <1>8
  <2>4. Closed(Saved(p), (Has("read") \cup lost) \cup Range(H))
    BY <2>3, SavedClosed
  <2>5. Closed(H \o Saved(p), Has("read") \cup lost)
    BY <1>9, <1>10, <2>2, <2>4, ClosedConcat
  <2> QED BY <1>13, <2>5
<1>23. /\ proc'[p].setup => promised' \subseteq proc'[p].library
       /\ proc'[p].attempted
  BY <1>1, <1>2, <1>4 DEF LoopOk
<1>24. proc'[p].library \subseteq Has("read")' \cup Range(u)
  BY <1>1, <1>8, <1>12, <1>13, <1>17
<1>25. ~disturbed => \A x \in proc'[p].library \cap Pipelines : CodeOf[x] \subseteq proc'[p].library \cup lost
  <2>1. ~disturbed => \A x \in proc[p].library \cap Pipelines : CodeOf[x] \subseteq proc[p].library \cup lost
    BY <1>4 DEF LoopOk
  <2> QED BY <1>1, <2>1, SavedLibrary
<1> HIDE DEF u
<1>26. proc'[p].file = path'["write"] /\ path'["merge"] = None
  BY <1>4, <1>11, <1>14
<1>27. Stream(p)' = u
  BY DEF u
<1>28. proc'[p].file # None
  BY <1>3, <1>11
<1> QED BY <1>1, <1>17, <1>19, <1>21, <1>22, <1>23, <1>24, <1>25, <1>26, <1>27, <1>28 DEF LoopOk

\* The file is open: the pipeline goes to the buffer.
LEMMA SaveBuffers ==
  ASSUME TypeInv, TypeInv', NEW p \in Processes, Save(p), StageOk(p), ~Opens(p), proc[p].file # None
  PROVE  LoopOk(p)'
<1> DEFINE s == Stream(p)
           u == Stream(p)'
           b == proc[p].buffer
           w == proc[p].written
           f == proc[p].file
           d == Saved(p)
<1>1. /\ proc[p].pc = "loop" /\ d \in Seq(Links)
      /\ path' = path /\ data' = data
      /\ build' = build /\ promised' = promised /\ lost' = lost /\ disturbed' = disturbed
      /\ proc'[p].library = proc[p].library \cup Range(d)
      /\ proc'[p].attempted = (proc[p].attempted \/ First(p)) /\ proc'[p].file = Target(p)
      /\ proc'[p].written = w
      /\ proc'[p].buffer = IF Target(p) = None THEN b ELSE b \o Added(p)
      /\ proc'[p].setup = proc[p].setup
  BY SaveFields
<1>2. LoopOk(p) /\ StartOk
  BY <1>1 DEF StageOk, At, LoopOk
<1>3. /\ f = path["write"] /\ OnFile(p) /\ path["merge"] = None
      /\ ~disturbed => Closed(s, Has("read") \cup lost)
      /\ proc[p].setup => promised \subseteq proc[p].library
      /\ proc[p].library \subseteq Has("read") \cup Range(s)
      /\ ~disturbed => \A x \in proc[p].library \cap Pipelines : CodeOf[x] \subseteq proc[p].library \cup lost
  BY <1>2 DEF LoopOk
<1>4. Target(p) = f /\ Added(p) = d /\ d \in Seq(Entries)
  BY <1>1, AddedFacts DEF Target
<1>5. proc'[p].buffer = b \o d /\ proc'[p].file = f
  BY <1>1, <1>4
<1>6. /\ b \in Seq(Entries) /\ w \in Nat
  BY DEF TypeInv, ProcsOk, ProcType
<1>7. /\ s \in Seq(Entries) /\ StreamIs(p)
  BY StreamFacts, StreamAlways
<1>8. StreamIs(p)'
  <2>1. TypeInv' => (\A q \in Processes : proc[q].file # None => StreamIs(q))'
    BY StreamNext
  <2> QED BY <1>5, <2>1
<1>9. /\ u \in Seq(Entries) /\ Len(u) = w + Len(b \o d)
      /\ \A k \in 1 .. w : u[k] = data[f][k]
      /\ \A k \in 1 .. Len(b \o d) : u[w + k] = (b \o d)[k]
  BY <1>1, <1>5, <1>8 DEF StreamIs
<1>10. /\ Len(s) = w + Len(b)
       /\ \A k \in 1 .. w : s[k] = data[f][k]
       /\ \A k \in 1 .. Len(b) : s[w + k] = b[k]
  BY <1>7 DEF StreamIs
<1>11. /\ b \o d \in Seq(Entries) /\ Len(b \o d) = Len(b) + Len(d)
       /\ \A k \in 1 .. Len(b) : (b \o d)[k] = b[k]
       /\ \A k \in 1 .. Len(d) : (b \o d)[Len(b) + k] = d[k]
  BY <1>4, <1>6, ConcatFacts
<1>12. /\ s \o d \in Seq(Entries) /\ Len(s \o d) = Len(s) + Len(d)
       /\ \A k \in 1 .. Len(s) : (s \o d)[k] = s[k]
       /\ \A k \in 1 .. Len(d) : (s \o d)[Len(s) + k] = d[k]
       /\ Range(s \o d) = Range(s) \cup Range(d)
  BY <1>4, <1>7, ConcatFacts
<1>13. Len(b) \in Nat /\ Len(d) \in Nat
  BY <1>4, <1>6, SeqFacts
<1> HIDE DEF s, u, b, w, f, d
<1>14. Len(u) = Len(s \o d)
  BY <1>6, <1>9, <1>10, <1>11, <1>12, <1>13
<1>15. ASSUME NEW k \in 1 .. Len(s \o d)  PROVE u[k] = (s \o d)[k]
  <2>1. CASE k \in 1 .. w
    <3>1. k \in 1 .. Len(s)
      BY <1>6, <1>10, <1>13, <2>1
    <3> QED BY <1>9, <1>10, <1>12, <2>1, <3>1
  <2>2. CASE k \notin 1 .. w
    <3>1. PICK j \in Int : j = k - w
      BY <1>6
    <3>2. j \in 1 .. Len(b) + Len(d) /\ k = w + j
      BY <1>6, <1>10, <1>12, <1>13, <2>2, <3>1
    <3>3. u[k] = (b \o d)[j]
      BY <1>9, <1>11, <3>2
    <3>4. CASE j \in 1 .. Len(b)
      <4>1. k \in 1 .. Len(s) /\ s[k] = b[j]
        BY <1>6, <1>10, <1>13, <3>2, <3>4
      <4> QED BY <1>11, <1>12, <3>3, <3>4, <4>1
    <3>5. CASE j \notin 1 .. Len(b)
      <4>1. PICK i \in Int : i = j - Len(b)
        BY <1>13
      <4>2. i \in 1 .. Len(d) /\ j = Len(b) + i /\ k = Len(s) + i
        BY <1>6, <1>10, <1>13, <3>2, <3>5, <4>1
      <4> QED BY <1>11, <1>12, <3>3, <4>2
    <3> QED BY <3>4, <3>5
  <2> QED BY <2>1, <2>2
<1>16. u = s \o d
  BY <1>9, <1>12, <1>14, <1>15, SeqEqual
<1>17. /\ StartOk' /\ Has("read")' = Has("read")
  BY <1>1, <1>2, NamesAre, ArchivesSame, StartKept
<1>18. /\ \A k \in 1 .. w : data[f][k] # Torn
       /\ w < Len(data[f]) => data[f][w + 1] = Torn
       /\ s # <<>> /\ s[1] = Header(build)
  BY <1>3 DEF OnFile, w, f, s
<1>19. u # <<>> /\ u[1] = Header(build)
  <2>1. Len(s) >= 1 /\ Len(s) \in Nat
    BY <1>7, <1>18, SeqFacts
  <2>2. 1 \in 1 .. Len(s) /\ Len(s \o d) >= 1
    BY <1>12, <1>13, <2>1
  <2>3. s \o d # <<>>
    BY <1>12, <2>2, SeqFacts
  <2> QED BY <1>12, <1>16, <1>18, <2>2, <2>3
<1>20. OnFile(p)'
  BY <1>1, <1>5, <1>18, <1>19 DEF OnFile, u
<1>21. ~disturbed => Closed(u, Has("read") \cup lost)
  <2> HAVE ~disturbed
  <2>1. proc[p].library \subseteq (Has("read") \cup lost) \cup Range(s)
    BY <1>3
  <2>2. Closed(d, (Has("read") \cup lost) \cup Range(s))
    BY <2>1, SavedClosed DEF d
  <2> QED BY <1>3, <1>4, <1>7, <1>16, <2>2, ClosedConcat
<1>22. ~disturbed => \A x \in proc'[p].library \cap Pipelines : CodeOf[x] \subseteq proc'[p].library \cup lost
  BY <1>1, <1>3, SavedLibrary DEF d
<1>23. proc'[p].library \subseteq Has("read") \cup Range(u)
  BY <1>1, <1>3, <1>12, <1>16
<1>24. Stream(p)' = u
  BY DEF u
<1>25. proc'[p].attempted /\ proc'[p].file # None
  <2>1. proc[p].attempted
    BY <1>1 DEF TypeInv, ProcsOk, ProcOk
  <2> QED BY <1>1, <1>5, <2>1 DEF f
<1> QED BY <1>1, <1>3, <1>5, <1>17, <1>20, <1>21, <1>22, <1>23, <1>24, <1>25 DEF LoopOk

\* There is no file: what is saved stays in memory.
LEMMA SaveKeeps ==
  ASSUME TypeInv, NEW p \in Processes, Save(p), StageOk(p), ~Opens(p), proc[p].file = None
  PROVE  LoopOk(p)'
<1>1. /\ proc[p].pc = "loop" /\ path' = path /\ data' = data
      /\ build' = build /\ promised' = promised /\ lost' = lost /\ disturbed' = disturbed
      /\ proc'[p].library = proc[p].library \cup Range(Saved(p))
      /\ proc'[p].attempted = (proc[p].attempted \/ First(p)) /\ proc'[p].file = Target(p)
      /\ proc'[p].setup = proc[p].setup
  BY SaveFields
<1>2. LoopOk(p) /\ StartOk
  BY <1>1 DEF StageOk, At, LoopOk
<1>3. Target(p) = None
  BY DEF Target
<1>4. Stream(p) = <<>> /\ Stream(p)' = <<>>
  BY <1>1, <1>3 DEF Stream
<1>5. /\ StartOk' /\ Has("read")' = Has("read")
  BY <1>1, <1>2, NamesAre, ArchivesSame, StartKept
<1>6. ~disturbed => \A x \in proc'[p].library \cap Pipelines : CodeOf[x] \subseteq proc'[p].library \cup lost
  BY <1>1, <1>2, SavedLibrary DEF LoopOk
<1>7. CASE proc[p].attempted \/ First(p)
  <2>1. ~proc[p].setup
    BY <1>2, <1>7 DEF LoopOk, Opens, First
  <2> QED BY <1>1, <1>2, <1>3, <1>5, <1>6, <1>7, <2>1 DEF LoopOk
<1>8. CASE ~proc[p].attempted /\ ~First(p)
  <2>1. Saved(p) = <<>>
    BY <1>8 DEF First
  <2>2. Range(Saved(p)) = {}
    BY <2>1 DEF Range
  <2>3. proc'[p].library = proc[p].library /\ proc'[p].attempted = FALSE
    BY <1>1, <1>8, <2>2
  <2> QED BY <1>1, <1>2, <1>3, <1>4, <1>5, <1>6, <1>8, <2>3 DEF LoopOk
<1> QED BY <1>7, <1>8

LEMMA SaveStage ==
  ASSUME TypeInv, TypeInv', NEW p \in Processes, Save(p), StageOk(p)
  PROVE  StageOk(p)'
<1>1. LoopOk(p)'
  BY SaveOpens, SaveBuffers, SaveKeeps
<1>2. proc'[p].pc = "loop"
  BY SaveFields
<1> QED BY <1>1, <1>2 DEF StageOk, At

-----------------------------------------------------------------------------
(* A process starts, ends or is killed.                                    *)

LEMMA WorksStage ==
  ASSUME TypeInv, TypeInv', NEW p \in Processes, Works(p), StageOk(p)
  PROVE  StageOk(p)'
<1>1. ASSUME NEW x \in Pipelines, CreatePipeline(p, x)  PROVE StageOk(p)'
  <2>1. /\ proc' = [proc EXCEPT ![p].items = Append(@, x), ![p].created = @ \cup {x}]
        /\ UNCHANGED <<path, data, build, promised, lost, disturbed>> /\ ProcsOk
    BY <1>1 DEF CreatePipeline, history, TypeInv
  <2>2. /\ proc'[p].pc = proc[p].pc /\ proc'[p].closing = proc[p].closing
        /\ proc'[p].library = proc[p].library
        /\ proc'[p].attempted = proc[p].attempted /\ proc'[p].file = proc[p].file
        /\ proc'[p].written = proc[p].written /\ proc'[p].buffer = proc[p].buffer
        /\ proc'[p].write_map = proc[p].write_map /\ proc'[p].map = proc[p].map
        /\ proc'[p].setup = proc[p].setup
    BY <2>1, CreatePipelineFields
  <2> QED BY <2>1, <2>2, StageFrame
<1>2. ASSUME FlushDiskCache(p)  PROVE StageOk(p)'
  <2>1. /\ proc' = [proc EXCEPT ![p].closing = TRUE]
        /\ UNCHANGED <<path, data, build, promised, lost, disturbed>> /\ ProcsOk
    BY <1>2 DEF FlushDiskCache, history, TypeInv
  <2>2. /\ proc'[p].pc = proc[p].pc /\ proc'[p].closing = TRUE
        /\ proc'[p].library = proc[p].library
        /\ proc'[p].attempted = proc[p].attempted /\ proc'[p].file = proc[p].file
        /\ proc'[p].written = proc[p].written /\ proc'[p].buffer = proc[p].buffer
        /\ proc'[p].write_map = proc[p].write_map /\ proc'[p].map = proc[p].map
        /\ proc'[p].setup = proc[p].setup
    BY <2>1, FlushFields
  <2> QED BY <2>1, <2>2, StageFrame
<1> QED BY <1>1, <1>2, GoesOnStage, MapWriteStage, OpenMergeStage, ParseStage, MergeEntryStage,
           MergeStage, CancelMergeStage, LoadStage, SaveStage, WriteBufferStage DEF Works

\* What the process leaves when it ends.
LEMMA EndThreadStart ==
  ASSUME TypeInv, NEW p \in Processes, EndThread(p), StageOk(p)
  PROVE  StartOk'
<1> DEFINE s == Stream(p)
<1>1. /\ proc[p].pc = "loop" /\ proc[p].items = <<>>
      /\ data' = IF proc[p].file = None THEN data ELSE Written(p, proc[p].buffer)
      /\ promised' = promised \cup Promise(p)
      /\ path' = path /\ build' = build /\ lost' = lost /\ disturbed' = disturbed
  BY DEF EndThread, At
<1>2. LoopOk(p) /\ StartOk
  BY <1>1 DEF StageOk, At, LoopOk
<1>3. Promise(p) # {} => proc[p].setup /\ Promise(p) \subseteq proc[p].library
  <2>1. proc[p].created \subseteq Range(proc[p].items) \cup proc[p].library
    BY DEF TypeInv, ProcsOk, ProcOk
  <2>2. Range(proc[p].items) = {}
    BY <1>1 DEF Range
  <2> QED BY <2>1, <2>2 DEF Promise
<1>4. CASE proc[p].file = None
  <2>1. \A n \in Names : Archive(n)' = Archive(n) /\ Has(n)' = Has(n) /\ path'[n] = path[n]
    BY <1>1, <1>4, ArchivesSame
  <2>2. /\ Archive("read")' = Archive("read") /\ Has("read")' = Has("read") /\ path'["read"] = path["read"]
        /\ Archive("write")' = Archive("write") /\ Has("write")' = Has("write") /\ path'["write"] = path["write"]
        /\ path'["merge"] = path["merge"]
    BY <2>1, NamesAre
  <2>3. Range(s) = {}
    BY <1>4 DEF Stream, Range
  <2>4. proc[p].setup => proc[p].library \subseteq Has("read")
    BY <1>2, <1>4, <2>3 DEF LoopOk
  <2>5. promised' \subseteq Has("read") \cup Has("write") /\ path["merge"] = None
    BY <1>1, <1>2, <1>3, <2>4 DEF LoopOk, StartOk
  <2> QED BY <1>1, <1>2, <2>2, <2>5 DEF StartOk
<1>5. CASE proc[p].file # None
  <2>1. /\ proc[p].buffer = Flushed(p, Len(proc[p].buffer), <<>>)
        /\ Len(proc[p].buffer) \in 0 .. Len(proc[p].buffer) /\ <<>> \in Torns
    BY AllFlushed DEF Torns
  <2>2. data' = Written(p, Flushed(p, Len(proc[p].buffer), <<>>))
    BY <1>1, <1>5, <2>1
  <2>3. /\ proc[p].file = path["write"] /\ OnFile(p) /\ path["merge"] = None
        /\ ~disturbed => Closed(s, Has("read") \cup lost)
        /\ proc[p].library \subseteq Has("read") \cup Range(s)
    BY <1>2, <1>5 DEF LoopOk
  <2>4. Archive("write")' = s /\ Has("write")' = Range(s) /\ Has("write") \subseteq Has("write")'
    BY <1>1, <1>5, <2>1, <2>2, <2>3, NamesAre, FlushedArchives
  <2>5. "read" \in Names \ {"write"} /\ "write" \in Names
    BY NamesAre
  <2>6. Archive("read")' = Archive("read") /\ Has("read")' = Has("read")
    BY <1>1, <1>5, <2>1, <2>2, <2>3, <2>5, OtherArchives
  <2> HIDE DEF s
  <2>7. promised' \subseteq Has("read") \cup Range(s)
    BY <1>1, <1>2, <1>3, <2>3, <2>4 DEF StartOk
  <2> QED BY <1>1, <1>2, <2>3, <2>4, <2>6, <2>7 DEF StartOk
<1> QED BY <1>4, <1>5

\* The archives are as the process left them; the names that are in use say how
\* far it got.
LEMMA CrashStart ==
  ASSUME TypeInv, NEW p \in Processes, Crash(p), StageOk(p)
  PROVE  StartOk'
<1> DEFINE cut == path["read"] = None /\ path["merge"] # None /\ MergeValid
<1>1. /\ proc[p].pc # "off" /\ path' = path /\ data' = data /\ build' = build
  BY DEF Crash, Running
<1>2. /\ disturbed' = disturbed /\ lost \subseteq lost'
      /\ cut => promised' \subseteq promised
      /\ cut /\ promised' # {} => path["write"] # None
      /\ ~cut => promised' = promised /\ lost' = lost /\ disturbed' = disturbed
  BY DEF Crash, MergeValid
<1>3. /\ Archive("read")' = Archive("read") /\ Has("read")' = Has("read") /\ path' = path
      /\ Archive("write")' = Archive("write") /\ Has("write")' = Has("write")
  BY <1>1, NamesAre, ArchivesSame
<1>4. cut /\ WriteOk => promised' \subseteq Has("write")
  <2> HAVE cut /\ WriteOk
  <2>1. path["write"] # None /\ IsValid(data[path["write"]])
    BY DEF WriteOk
  <2>2. Archive("write") = Whole(data[path["write"]])
    BY <2>1, NamesAre, ArchiveFacts
  <2>3. promised' \subseteq Range(Whole(data[path["write"]]))
    BY <2>1 DEF Crash, MergeValid
  <2> QED BY <2>2, <2>3 DEF Has
<1>5. path["read"] = None => Archive("read") = <<>> /\ Has("read") = {}
  BY ArchiveNone
<1>6. CASE StartOk
  <2>1. CASE cut
    <3>1. promised' \subseteq Has("read") \cup Has("write")
      BY <1>2, <1>6, <2>1 DEF StartOk
    <3>2. ~disturbed => Closed(Archive("read"), lost') /\ Closed(Archive("write"), Has("read") \cup lost')
      <4> HAVE ~disturbed
      <4>1. Closed(Archive("read"), lost) /\ Closed(Archive("write"), Has("read") \cup lost)
        BY <1>6 DEF StartOk
      <4>2. Has("read") \cup lost \subseteq Has("read") \cup lost'
        BY <1>2
      <4> QED BY <1>2, <4>1, <4>2, ClosedMore
    <3> QED BY <1>2, <1>3, <2>1, <3>1, <3>2 DEF StartOk
  <2>2. CASE ~cut
    BY <1>2, <1>3, <1>6, <2>2 DEF StartOk
  <2> QED BY <2>1, <2>2
<1>7. CASE MergeOk /\ MergeValid
  <2>1. cut /\ WriteOk
    BY <1>7 DEF MergeOk
  <2>2. lost' = lost \cup (Code \cap Has("merge"))
    <3>1. Has("merge") = Range(Whole(data[path["merge"]]))
      BY <1>7, NamesAre, ArchiveFacts DEF MergeOk, MergeValid, Has
    <3>2. lost' = lost \cup (Code \cap Range(Whole(data[path["merge"]])))
      BY <2>1 DEF Crash, MergeValid
    <3> QED BY <3>1, <3>2
  <2>3. Archive("read") = <<>> /\ Has("read") = {}
    BY <1>5, <2>1
  <2>4. ~disturbed => Closed(Archive("read"), lost') /\ Closed(Archive("write"), Has("read") \cup lost')
    <3> HAVE ~disturbed
    <3>1. Closed(Archive("write"), Has("merge") \cup lost)
      BY <1>7 DEF MergeOk
    <3>2. Code \cap (Has("merge") \cup lost) \subseteq Has("read") \cup lost'
      BY <2>2
    <3> QED BY <2>3, <3>1, <3>2, ClosedCode, ClosedEmpty
  <2> QED BY <1>2, <1>3, <1>4, <2>1, <2>4 DEF StartOk
<1>8. CASE /\ path["read"] = None /\ WriteOk /\ ~MergeValid
           /\ promised \subseteq Has("write") /\ (~disturbed => Closed(Archive("write"), lost))
  <2>1. ~cut
    BY <1>8
  <2>2. Has("read") \cup lost = lost
    BY <1>5, <1>8
  <2> QED BY <1>2, <1>3, <1>5, <1>8, <2>1, <2>2, ClosedEmpty DEF StartOk
<1>9. CASE ReplaceReadOk
  <2>1. ~cut
    BY <1>9 DEF ReplaceReadOk
  <2>2. Has("read") \cup lost = lost
    BY <1>5, <1>9 DEF ReplaceReadOk
  <2> QED BY <1>2, <1>3, <1>5, <1>9, <2>1, <2>2, ClosedEmpty DEF StartOk, ReplaceReadOk
<1>10. OpenMergeOk(p) /\ ~MergeValid =>
         /\ path["read"] = None /\ WriteOk
         /\ promised \subseteq Has("write") /\ (~disturbed => Closed(Archive("write"), lost))
  <2> HAVE OpenMergeOk(p) /\ ~MergeValid
  <2>1. Has("merge") = {}
    BY NamesAre, ArchiveFacts DEF OpenMergeOk, MergeOk, MergeValid
  <2>2. Has("merge") \cup lost = lost
    BY <2>1
  <2> QED BY <2>1, <2>2 DEF OpenMergeOk, MergeOk
<1>11. proc[p].pc \in Stages
  BY DEF TypeInv, ProcsOk, ProcType
<1>12. \/ StartOk
       \/ MergeOk /\ MergeValid
       \/ OpenMergeOk(p)
       \/ DropReadOk(p)
       \/ ReplaceReadOk
  BY <1>1, <1>11 DEF StageOk, At, Stages, MapWriteOk, TakeReadOk, ParseOk, OpenMergeOk, AppendOk,
                     PutBackOk, ReplaceOk, DeleteWriteOk, DeleteMergeOk, LoadOk, LoopOk
<1>13. OpenMergeOk(p) => MergeOk
  BY DEF OpenMergeOk
<1>14. DropReadOk(p) =>
         /\ path["read"] = None /\ WriteOk /\ ~MergeValid
         /\ promised \subseteq Has("write") /\ (~disturbed => Closed(Archive("write"), lost))
  BY DEF DropReadOk
<1> HIDE DEF cut
<1> QED BY <1>6, <1>7, <1>8, <1>9, <1>10, <1>12, <1>13, <1>14

\* Another build reads nothing that is there.
LEMMA UpgradeStart ==
  ASSUME TypeInv, Upgrade
  PROVE  StartOk'
<1>1. /\ build' = build + 1 /\ promised' = {} /\ path' = path /\ data' = data /\ build \in 1 .. MaxBuilds
      /\ build < MaxBuilds
  BY DEF Upgrade, TypeInv
<1>2. build + 1 \in 1 .. MaxBuilds /\ \A b \in 1 .. build : b # build + 1
  BY <1>1, CacheAssumption
<1>3. ASSUME NEW n \in Names  PROVE Archive(n)' = <<>> /\ Has(n)' = {}
  <2>1. CASE path[n] = None
    BY <1>1, <2>1, ArchiveGone
  <2>2. CASE path[n] # None
    <3> DEFINE s == data[path[n]]
    <3>1. path[n] \in Files
      BY <2>2 DEF TypeInv, PathOk
    <3>2. s \in Seq(Entries) /\ DataOk(s)
      BY <3>1 DEF TypeInv, FilesOk
    <3>3. Header(build + 1) \notin Links \cup {Torn}
      BY <1>2, Kinds
    <3>4. Header(build + 1) \notin Headers
      BY <1>2 DEF Headers, Header
    <3>5. s # <<>> => 1 \in DOMAIN s
      <4> HIDE DEF s
      <4> QED BY <3>2, SeqFacts
    <3>6. s # <<>> => s[1] # Header(build + 1)
      BY <3>2, <3>3, <3>4, <3>5 DEF DataOk
    <3>7. ~IsValid(data[path[n]])'
      BY <1>1, <3>6 DEF IsValid
    <3>8. Archive(n)' = <<>>
      BY <3>7 DEF Archive, Readable
    <3>9. Range(<<>>) = {}
      BY DEF Range
    <3> QED BY <3>8, <3>9 DEF Has
  <2> QED BY <2>1, <2>2
<1>4. Archive("read")' = <<>> /\ Archive("write")' = <<>>
  BY <1>3, NamesAre
<1> QED BY <1>1, <1>4, ClosedEmpty DEF StartOk

LEMMA StageStep ==
  ASSUME TypeInv, TypeInv', AloneInv, AloneInv', StageInv, [Next]_vars
  PROVE  StageInv'
<1>1. /\ \A p \in Processes : proc[p].alone => proc[p].pc # "off" /\ \A q \in Processes \ {p} : proc[q].pc = "off"
      /\ promised # {} \/ ~disturbed => \A p \in Processes : proc[p].pc # "off" => proc[p].alone
  BY DEF AloneInv, Running, Alone
<1>2. /\ (\A p \in Processes : proc[p].pc = "off") => StartOk
      /\ \A p \in Processes : proc[p].alone => StageOk(p)
  BY DEF StageInv, Running
<1>3. ProcsOk
  BY DEF TypeInv
\* Nobody is alone, and somebody runs, or nothing is left to say.
<1>4. ASSUME \A q \in Processes : ~proc'[q].alone, StartOk' \/ \E q \in Processes : proc'[q].pc # "off"
      PROVE  StageInv'
  BY <1>4 DEF StageInv, Running
<1>5. ASSUME Upgrade  PROVE StageInv'
  <2>1. \A q \in Processes : ~proc'[q].alone
    BY <1>1, <1>5 DEF Upgrade, Running
  <2> QED BY <1>4, <1>5, <2>1, UpgradeStart
<1>6. ASSUME NEW p \in Processes, Works(p)  PROVE StageInv'
  <2>1. Steady(p)
    BY <1>6, WorksSteady
  <2>2. CASE proc[p].alone
    <3>1. StageOk(p)'
      BY <1>2, <1>6, <2>2, WorksStage
    <3>2. proc'[p].alone
      BY <2>1, <2>2 DEF Steady
    <3> QED BY <3>1, <3>2, StageDone
  <2>3. CASE ~proc[p].alone
    <3>1. \A q \in Processes : ~proc'[q].alone
      BY <1>1, <2>1, <2>3 DEF Steady
    <3>2. proc'[p].pc # "off"
      BY <2>1 DEF Steady
    <3> QED BY <1>4, <3>1, <3>2
  <2> QED BY <2>2, <2>3
<1>7. ASSUME NEW p \in Processes, Start(p)  PROVE StageInv'
  <2>1. CASE Alone(p)
    <3>1. /\ proc' = [proc EXCEPT ![p] = [Off EXCEPT !.pc = "promote", !.alone = TRUE]]
          /\ UNCHANGED <<path, data, build, promised, lost, disturbed>> /\ proc[p].pc = "off"
      BY <1>7, <2>1 DEF Start, Running
    <3>2. proc'[p].pc = "promote" /\ proc'[p].alone = TRUE
      BY <1>3, <3>1 DEF Off, ProcsOk
    <3>3. \A q \in Processes : proc[q].pc = "off"
      BY <2>1, <3>1 DEF Alone, Running
    <3>4. StartOk'
      BY <1>2, <3>1, <3>3, ArchivesSame, StartKept
    <3>5. StageOk(p)'
      BY <3>2, <3>4 DEF StageOk, At
    <3> QED BY <3>2, <3>5, StageDone
  <2>2. CASE ~Alone(p)
    <3>1. proc' = [q \in Processes |-> IF q = p THEN [Off EXCEPT !.pc = "promote"]
                                       ELSE [proc[q] EXCEPT !.alone = FALSE]]
      BY <1>7, <2>2 DEF Start
    <3>2. \A q \in Processes : ~proc'[q].alone
      <4> TAKE q \in Processes
      <4>1. CASE q = p
        BY <3>1, <4>1 DEF Off
      <4>2. CASE q # p
        BY <1>3, <3>1, <4>2 DEF ProcsOk, ProcType
      <4> QED BY <4>1, <4>2
    <3>3. proc'[p].pc # "off"
      BY <3>1 DEF Off
    <3> QED BY <1>4, <3>2, <3>3
  <2> QED BY <2>1, <2>2
<1>8. ASSUME NEW p \in Processes, EndThread(p) \/ Crash(p)  PROVE StageInv'
  <2>1. proc' = [proc EXCEPT ![p] = Off] /\ proc[p].pc # "off"
    BY <1>8 DEF EndThread, Crash, Running, At
  <2>2. proc'[p] = Off /\ \A q \in Processes \ {p} : proc'[q] = proc[q]
    BY <1>3, <2>1, OffFields
  <2>3. Off.pc = "off" /\ Off.alone = FALSE
    BY DEF Off
  <2>4. \A q \in Processes : ~proc'[q].alone
    BY <1>1, <2>1, <2>2, <2>3
  <2>5. StartOk'
    <3>1. CASE proc[p].alone
      BY <1>2, <1>8, <3>1, EndThreadStart, CrashStart
    <3>2. CASE ~proc[p].alone
      <4>1. promised = {} /\ disturbed
        BY <1>1, <2>1, <3>2
      <4>2. promised' = {} /\ disturbed'
        BY <1>8, <3>2, <4>1 DEF EndThread, Crash, Promise
      <4> QED BY <4>2 DEF StartOk
    <3> QED BY <3>1, <3>2
  <2> QED BY <1>4, <2>4, <2>5
<1>9. CASE UNCHANGED vars
  <2>1. UNCHANGED <<path, data, build, promised, lost, disturbed>> /\ proc' = proc
    BY <1>9 DEF vars
  <2>2. ASSUME NEW p \in Processes, proc'[p].alone  PROVE StageInv'
    <3>1. StageOk(p)
      BY <1>2, <2>1, <2>2
    <3>2. StageOk(p)'
      BY <2>1, <3>1, StageFrame
    <3> QED BY <2>2, <3>2, StageDone
  <2>3. CASE \A p \in Processes : ~proc'[p].alone
    <3>1. CASE \A p \in Processes : proc[p].pc = "off"
      <4>1. StartOk'
        BY <1>2, <2>1, <3>1, ArchivesSame, StartKept
      <4> QED BY <1>4, <2>3, <4>1
    <3>2. CASE ~ \A p \in Processes : proc[p].pc = "off"
      BY <1>4, <2>1, <2>3, <3>2
    <3> QED BY <3>1, <3>2
  <2> QED BY <2>2, <2>3
<1> QED BY <1>5, <1>6, <1>7, <1>8, <1>9, NextCases

-----------------------------------------------------------------------------
(* The theorems.                                                           *)

\* There are no archives, and nobody runs.
LEMMA InitIInv ==
  Init => IInv
<1> SUFFICES ASSUME Init  PROVE IInv
  OBVIOUS
<1>1. /\ path = [n \in Names |-> None] /\ data = [f \in Files |-> <<>>]
      /\ proc = [p \in Processes |-> Off] /\ build = 1 /\ promised = {} /\ disturbed = FALSE
  BY DEF Init
<1>2. PathOk
  BY <1>1 DEF PathOk
<1>3. FilesOk
  <2>1. <<>> \in Seq(Entries) /\ DataOk(<<>>)
    BY DEF DataOk
  <2>2. data \in [Files -> Seq(Entries)] /\ \A f \in Files : data[f] = <<>>
    BY <1>1, <2>1
  <2> QED BY <2>1, <2>2 DEF FilesOk
<1>4. ProcOk(Off)
  <2>1. BufferOk(Off) /\ Range(Off.items) = {}
    BY DEF BufferOk, Off, Range
  <2> QED BY <2>1 DEF ProcOk, Off
<1>5. ProcsOk
  BY <1>1, <1>4, OffIsProc DEF ProcsOk
<1>6. TypeInv
  <2>1. 1 \in 1 .. MaxBuilds
    BY CacheAssumption
  <2> QED BY <1>1, <1>2, <1>3, <1>5, <2>1 DEF TypeInv
<1>7. \A p \in Processes : proc[p].pc = "off" /\ proc[p].alone = FALSE
  BY <1>1 DEF Off
<1>8. AloneInv
  BY <1>7 DEF AloneInv, Running
<1>9. Archive("read") = <<>> /\ Archive("write") = <<>>
  BY <1>1, NamesAre DEF Archive
<1>10. StartOk
  BY <1>1, <1>9, ClosedEmpty DEF StartOk
<1>11. StageInv
  BY <1>7, <1>10 DEF StageInv
<1> QED BY <1>6, <1>8, <1>11 DEF IInv

\* Every step keeps the invariant.
LEMMA StepIInv ==
  IInv /\ [Next]_vars => IInv'
<1> SUFFICES ASSUME IInv, [Next]_vars  PROVE IInv'
  OBVIOUS
<1>1. TypeInv /\ AloneInv /\ StageInv
  BY DEF IInv
<1>2. TypeInv'
  BY <1>1, TypeStep
<1>3. AloneInv'
  BY <1>1, AloneStep
<1>4. StageInv'
  BY <1>1, <1>2, <1>3, StageStep
<1> QED BY <1>2, <1>3, <1>4 DEF IInv

\* The invariant holds: whichever stage of the merge a process is in, and
\* whatever was killed, cancelled or upgraded before it.
THEOREM DiskCacheInvariant ==
  Spec => []IInv
BY InitIInv, StepIInv, PTL DEF Spec

\* What a session that ended as it should has compiled is found by every later
\* one that is alone and not torn down at once: vkd3d_pipeline_library_disk_
\* cache_merge loses nothing, wherever it is stopped, but for what its comment
\* says (cache.c:3145-3153).
THEOREM PromisesAreAlwaysKept ==
  Spec => []PromisesAreKept
<1>1. IInv => PromisesAreKept
  <2> SUFFICES ASSUME IInv, NEW p \in Processes, proc[p].alone, proc[p].setup
               PROVE  promised \subseteq proc[p].library
    BY DEF PromisesAreKept
  <2>1. ProcOk(proc[p]) /\ StageOk(p)
    BY DEF IInv, TypeInv, ProcsOk, StageInv
  <2>2. proc[p].pc = "loop"
    BY <2>1 DEF ProcOk
  <2>3. LoopOk(p)
    BY <2>1, <2>2 DEF StageOk, At
  <2> QED BY <2>3 DEF LoopOk
<1> QED BY <1>1, DiskCacheInvariant, PTL

\* A pipeline that is found finds the SPIR-V it links to, wherever sessions were
\* killed, but for SPIR-V in an archive that a cut-off merge took away, as long as
\* no two processes ran at once: in every file the SPIR-V comes first
\* (d3d12_pipeline_library_read_blob_stream_format stops at what is torn).
THEOREM LibraryIsAlwaysWhole ==
  Spec => []LibraryIsWhole
<1>1. IInv => TypeOK
  <2> SUFFICES ASSUME IInv  PROVE TypeOK
    OBVIOUS
  <2>1. PathOk /\ ProcsOk
    BY DEF IInv, TypeInv
  <2>2. ASSUME NEW p \in Processes
        PROVE  /\ proc[p].library \subseteq Pipelines \cup Code
               /\ Range(proc[p].items) \subseteq proc[p].created
               /\ proc[p].file # None => proc[p].written <= Len(data[proc[p].file])
    <3>1. proc[p] \in ProcType /\ ProcOk(proc[p])
      BY <2>1 DEF ProcsOk
    <3>2. proc[p].library \subseteq Links
      BY <3>1 DEF ProcType
    <3> QED BY <3>1, <3>2 DEF ProcOk, Links
  <2> QED BY <2>1, <2>2 DEF PathOk, TypeOK
<1>2. IInv => LibraryIsClosed
  <2> SUFFICES ASSUME IInv, ~disturbed, NEW p \in Processes, NEW x \in proc[p].library \cap Pipelines
               PROVE  CodeOf[x] \subseteq proc[p].library \cup lost
    BY DEF LibraryIsClosed
  <2>1. ProcOk(proc[p])
    BY DEF IInv, TypeInv, ProcsOk
  <2>2. proc[p].pc = "loop"
    BY <2>1 DEF ProcOk
  <2>3. proc[p].alone
    BY <2>2 DEF IInv, AloneInv, Running
  <2>4. LoopOk(p)
    BY <2>2, <2>3 DEF IInv, StageInv, StageOk, At
  <2> QED BY <2>4 DEF LoopOk
<1>3. IInv => LibraryIsWhole
  BY <1>1, <1>2 DEF LibraryIsWhole
<1> QED BY <1>3, DiskCacheInvariant, PTL
=============================================================================
