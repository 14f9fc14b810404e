---------------------------- MODULE MCFenceEvents ----------------------------
(* Instances of FenceEvents for TLC: one call names both fences or the native *)
(* one, another one the shared fence.                                        *)
EXTENDS FenceEvents, TLC

CONSTANTS n, s, c1, c2

Sets == c1 :> {{n, s}, {n}} @@ c2 :> {{s}}
AnyOrSingle == {"any", "single"}
OnlyAny == {"any"}
OnlyAll == {"all"}
=============================================================================
