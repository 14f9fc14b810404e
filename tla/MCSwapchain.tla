----------------------------- MODULE MCSwapchain -----------------------------
(* Instances of Swapchain for TLC. *)
EXTENDS Swapchain, TLC

Never  == {FALSE}
Always == {TRUE}
Either == BOOLEAN
=============================================================================
