----------------------------- MODULE MemoryChunk -----------------------------
(***************************************************************************)
(* The free ranges of a chunk of memory (vkd3d_memory_chunk, memory.c): a   *)
(* sorted array from which suballocations are cut, with gaps for their      *)
(* alignment, and to which they return.                                     *)
(***************************************************************************)
EXTENDS Integers, Sequences, FiniteSets

AlignUp(n, alignment) == ((n + alignment - 1) \div alignment) * alignment

End(r) == r.offset + r.length

Fitting(ranges, size, alignment) ==
  {i \in DOMAIN ranges : AlignUp(ranges[i].offset, alignment) + size <= End(ranges[i])}

\* The first range of exactly that length, else the first of the longest ones.
PickRange(ranges, size, alignment) ==
  LET fits    == Fitting(ranges, size, alignment)
      exact   == {i \in fits : ranges[i].length = size}
      longest == {i \in fits : \A j \in fits : ranges[j].length <= ranges[i].length}
      picks   == IF exact # {} THEN exact ELSE longest
  IN  CHOOSE i \in picks : \A j \in picks : i <= j

PickOffset(ranges, size, alignment) ==
  AlignUp(ranges[PickRange(ranges, size, alignment)].offset, alignment)

\* A range, unless it is empty.
Piece(first, last) ==
  IF first = last THEN <<>> ELSE <<[offset |-> first, length |-> last - first]>>

\* What is left of the range on either side stays free.
AllocateRange(ranges, size, alignment) ==
  LET i      == PickRange(ranges, size, alignment)
      start  == PickOffset(ranges, size, alignment)
  IN  SubSeq(ranges, 1, i - 1)
        \o Piece(ranges[i].offset, start) \o Piece(start + size, End(ranges[i]))
        \o SubSeq(ranges, i + 1, Len(ranges))

\* The first range that starts behind an offset.
FindRange(ranges, start) == 1 + Cardinality({i \in DOMAIN ranges : ranges[i].offset <= start})

\* Faulty variant: a range that closes a gap is merged to one side.
FreeRange_OneSide(ranges, start, size) ==
  LET i          == FindRange(ranges, start)
      adjacent_l == i > 1 /\ End(ranges[i - 1]) = start
      adjacent_r == ~adjacent_l /\ i <= Len(ranges) /\ ranges[i].offset = start + size
      first      == IF adjacent_l THEN ranges[i - 1].offset ELSE start
      last       == IF adjacent_r THEN End(ranges[i]) ELSE start + size
  IN  SubSeq(ranges, 1, IF adjacent_l THEN i - 2 ELSE i - 1)
        \o <<[offset |-> first, length |-> last - first]>>
        \o SubSeq(ranges, IF adjacent_r THEN i + 1 ELSE i, Len(ranges))

\* A range that is given back is merged with its neighbours.
FreeRange(ranges, start, size) ==
  LET i          == FindRange(ranges, start)
      adjacent_l == i > 1 /\ End(ranges[i - 1]) = start
      adjacent_r == i <= Len(ranges) /\ ranges[i].offset = start + size
      first      == IF adjacent_l THEN ranges[i - 1].offset ELSE start
      last       == IF adjacent_r THEN End(ranges[i]) ELSE start + size
  IN  SubSeq(ranges, 1, IF adjacent_l THEN i - 2 ELSE i - 1)
        \o <<[offset |-> first, length |-> last - first]>>
        \o SubSeq(ranges, IF adjacent_r THEN i + 1 ELSE i, Len(ranges))

IsFree(ranges, size) == Len(ranges) = 1 /\ ranges[1].length = size

-----------------------------------------------------------------------------
(* What they are meant to be                                               *)

Cells(start, size) == start .. start + size - 1

\* The free cells of a chunk as ranges: as long as they can be, and sorted.
FreeRanges(free) ==
  LET starts == {a \in free : a - 1 \notin free}
      ends   == {b + 1 : b \in {c \in free : c + 1 \notin free}}
      Nth(set, i) == CHOOSE a \in set : Cardinality({b \in set : b < a}) = i - 1
  IN  [i \in 1 .. Cardinality(starts) |->
         [offset |-> Nth(starts, i), length |-> Nth(ends, i) - Nth(starts, i)]]

\* Whatever cells of a chunk are free, an allocation gets free and aligned cells,
\* fails only if there are none, and leaves the ranges of the others; and what is
\* given back leaves the ranges of all that are free
\* (vkd3d_memory_chunk_allocate_range, _free_range).
RangesAreRight(size) ==
  \A free \in SUBSET (0 .. size - 1) :
    LET ranges == FreeRanges(free) IN
    /\ \A n, alignment \in 1 .. size :
         LET start == PickOffset(ranges, n, alignment) IN
         IF Fitting(ranges, n, alignment) = {}
         THEN \A o \in free : o % alignment = 0 => ~(Cells(o, n) \subseteq free)
         ELSE /\ start % alignment = 0 /\ Cells(start, n) \subseteq free
              /\ AllocateRange(ranges, n, alignment) = FreeRanges(free \ Cells(start, n))
    /\ \A o \in 0 .. size - 1 : \A n \in 1 .. size - o :
         Cells(o, n) \cap free = {} =>
           FreeRange(ranges, o, n) = FreeRanges(free \cup Cells(o, n))
=============================================================================
