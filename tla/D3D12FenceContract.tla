-------------------------- MODULE D3D12FenceContract --------------------------
(***************************************************************************)
(* struct d3d12_fence, as D3D12Fence describes it, keeps the promises of   *)
(* FenceContract.  Waits that were dropped and fence workers that were let *)
(* pass continue; so do threads that return from SetEventOnCompletion.     *)
(***************************************************************************)
EXTENDS D3D12Fence

Issued(w) == wait[w].pc # "idle"

UpdateNumber(n) == CHOOSE u \in fence.pending_updates : u.update_count = n

Promised ==
  [n \in (fence.signal_count + 1)..fence.update_count |-> UpdateNumber(n).virtual_value]

OpenRequests ==
  fence.events \cup
  {[value |-> wait[w].value, key |-> w] : w \in {v \in Waits : Issued(v) /\ ~wait[v].reached}}

MetClients ==
  signalled \cup {t \in NullThreads : null_wait[t].latch}
            \cup {w \in Waits : Issued(w) /\ wait[w].reached}

ThroughClients ==
  {t \in NullThreads : null_wait[t].pc = "done"} \cup
  {w \in Waits : wait[w].pc \in {"satisfied", "ordered"}}

Contract ==
  INSTANCE FenceContract WITH
    Clients  <- Waits \cup Handles \cup NullThreads,
    value    <- fence.virtual_value,
    taken    <- fence.signal_count,
    count    <- fence.update_count,
    promised <- Promised,
    open     <- OpenRequests,
    met      <- MetClients,
    through  <- ThroughClients

\* The fence implements its contract: out-of-order fence workers, rewinds,
\* tickets and broadcasts never show as a value taken out of order or twice,
\* nor as a client that continues although the fence never held its value.
ImplementsContract == Contract!Spec

\* A fence worker that may pass an update passes it after the fence held the
\* awaited value; one that may not is held back by an update with such a value.
OrderedWasReached ==
  \A w \in Waits :
    wait[w].pc \in {"ordering", "order_asleep", "order_awake"} =>
      IF wait[w].update <= fence.signal_count
      THEN wait[w].reached
      ELSE \E u \in fence.pending_updates :
             u.update_count = wait[w].update /\ u.virtual_value >= wait[w].value
=============================================================================
