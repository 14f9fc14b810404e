---------------------------- MODULE MCQueueInterop ----------------------------
(* Instances of QueueInterop: one thread or two acquire the VkQueue. *)
EXTENDS QueueInterop

CONSTANTS u1, u2  \* threads that acquire the VkQueue
===============================================================================
