----------------------------- MODULE MCDiskCache -----------------------------
(* Instances of DiskCache: pipelines that link to the same SPIR-V. *)
EXTENDS DiskCache, TLC

CONSTANTS x, y, c, p1, p2

MCCodeOf == [p \in Pipelines |-> {c}]

\* Neither processes nor pipelines are told apart.
MCSymmetry == Permutations(Processes) \cup Permutations(Pipelines)
=============================================================================
