---------------------------- MODULE MCD3D12Fence ----------------------------
(* One fence for TLC: UINT64_MAX is 2, so that the values are "before",     *)
(* "after" and "released".  The first wait is on VkQueue q1, the other on   *)
(* q2, and both VkQueues signal.                                            *)
EXTENDS D3D12FenceContract

CONSTANTS q1, q2, w1

MCQueueOf == [w \in Waits |-> IF w = w1 THEN q1 ELSE q2]
=============================================================================
