-------------------------- MODULE MCMemoryTransfers --------------------------
(* Instances of MemoryTransfers for TLC. *)
EXTENDS MemoryTransfers, TLC

CONSTANTS s1, s2, chunk, d1, t1, q1

\* A small suballocation and a larger one that may need a gap before it.
MCSizeOf == [a \in Subs |-> IF a = s1 THEN 1 ELSE 2]
MCAlignmentOf == [a \in Subs |-> IF a = s1 THEN 1 ELSE 2]
=============================================================================
