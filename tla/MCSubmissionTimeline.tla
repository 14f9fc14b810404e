------------------------- MODULE MCSubmissionTimeline -------------------------
(* Two command queues on one VkQueue, in any order of names.                  *)
EXTENDS SubmissionTimeline, TLC

CONSTANTS A, B  \* command queues

Calls(executes, signals, externals) ==
  [execute |-> executes, signal_shared |-> signals, external |-> externals]

SafeCalls   == Calls(3, 1, 1)
SharedCalls == Calls(0, 1, 1)

QueueSymmetry == Permutations({A, B})
===============================================================================
