---------------------------- MODULE MCCommandQueue ----------------------------
(* Instances of CommandQueue: which VkQueue each command queue is mapped to,  *)
(* which queue signals and awaits which fence, and the bounds.                *)
EXTENDS CommandQueue, TLC

CONSTANTS A, B, C,  \* command queues
          vq1, vq2, \* VkQueues
          F, G, H   \* fences

Call(type, c, f, value) == [type |-> type, queue |-> c, fence |-> f, value |-> value]

Program(calls, max, executing) ==
  [waits_and_signals |-> calls, calls |-> max, executing |-> executing,
   cpu_signals |-> {}, releasable |-> {}, closable |-> {}, may_lose_device |-> FALSE]

Separate     == (A :> vq1) @@ (B :> vq2)
TwoShareOne  == (A :> vq1) @@ (B :> vq1) @@ (C :> vq2)

\* A signals F, with two values in any order; C, on another VkQueue, waits for
\* the larger one and signals G back. A and C wait for each other if both wait
\* before they signal.
Chain(n) ==
  Program({Call("signal", A, F, 1), Call("signal", A, F, 2),
           Call("wait", C, F, 2), Call("signal", C, G, 1), Call("wait", A, G, 1)},
          (A :> 3) @@ (B :> 0) @@ (C :> n), {A, C})

\* C signals F to A, and A signals G to B on the same VkQueue, which passes it
\* on as H.
SharedCalls == {Call("signal", C, F, 1), Call("wait", A, F, 1),
                Call("signal", A, G, 1), Call("wait", B, G, 1),
                Call("signal", B, H, 1)}
Shared(n, executing) ==
  Program(SharedCalls, (A :> n) @@ (B :> 2) @@ (C :> 2), executing)

\* The same without H: a queue is released, and the device may be lost.
Lost == [Program({k \in SharedCalls : k.fence # H},
                 (A :> 2) @@ (B :> 1) @@ (C :> 2), {C})
           EXCEPT !.closable = {A}, !.may_lose_device = TRUE]

\* A passes G to C, and C passes it on as F to B, which is on A's VkQueue.
RingCalls == {Call("signal", A, G, 1), Call("wait", C, G, 1),
              Call("signal", C, F, 1), Call("wait", B, F, 1)}
Ring(calls, executing) == Program(calls, (A :> 2) @@ (B :> 1) @@ (C :> 2), executing)

\* A also waits for F. If A and C both wait before they signal, only a signal
\* from the CPU lets them go on; if both signals were scheduled before, A's
\* worker and C's order themselves after each other, which is no deadlock as
\* long as each worker keeps the order of its own items.
Cycle == [Ring(RingCalls \cup {Call("wait", A, F, 1)}, {})
            EXCEPT !.cpu_signals = {[fence |-> F, value |-> 1]}, !.closable = {A}]

\* The command queues do not wait for each other, but the VkQueues may: B, when
\* it is released, leaves its wait for F to vq1, where A's work and A's signal
\* may come after it, and F is signalled on vq2 behind a wait for A's signal.
VkQueueCycle == [Ring(RingCalls, {A}) EXCEPT !.closable = {B}, !.releasable = {F}]

\* The programs of the run; and two larger ones, for the order alone.
QueuePrograms == {Chain(2), Shared(2, {C}), Lost, Cycle, VkQueueCycle}
OrderPrograms == {Chain(3), Shared(3, {A, C})}

\* The chain through two command queues that share a VkQueue.
AliasPrograms ==
  {Program({Call("signal", A, F, 1), Call("wait", B, F, 1),
            Call("signal", B, G, 1), Call("wait", C, G, 1)},
           (A :> 2) @@ (B :> 2) @@ (C :> 2), {A, C})}

\* Two command queues on different VkQueues signal one fence.
TwoSignallersPrograms ==
  {Program({Call("signal", A, F, 2), Call("signal", B, F, 1)},
           (A :> 2) @@ (B :> 1), {A})}
===============================================================================
