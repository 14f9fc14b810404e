---------------------------- MODULE FenceContract ----------------------------
(***************************************************************************)
(* What a D3D12 fence promises, without queues, workers, tickets or        *)
(* sleeping threads.  A client (an event, a blocked thread, a queue wait)  *)
(* asks for a value; the request is met the moment the fence holds a       *)
(* sufficient value and stays met although the fence may be set back; the  *)
(* client continues only if its request was met.  The signals of the GPU   *)
(* take effect in the order in which they were scheduled, each once.       *)
(***************************************************************************)
EXTENDS Integers

CONSTANTS Values, Clients

VARIABLES
  value,     \* what GetCompletedValue returns
  taken,     \* GPU signals that took effect
  count,     \* GPU signals that were scheduled
  promised,  \* the values of the signals taken + 1 .. count
  open,      \* requests that were not met
  met,       \* clients a request of whom was met
  through    \* clients that continued

vars == <<value, taken, count, promised, open, met, through>>

Init ==
  /\ value \in Values
  /\ taken = 0 /\ count = 0 /\ promised = [n \in {} |-> 0]
  /\ open = {} /\ met = {} /\ through = {}

Ask(client, v) ==
  /\ IF v <= value
     THEN met' = met \cup {client} /\ UNCHANGED open
     ELSE open' = open \cup {[value |-> v, key |-> client]} /\ UNCHANGED met
  /\ UNCHANGED <<value, taken, count, promised, through>>

\* A call that would block, for a value the fence has.
AskAndContinue(client, v) ==
  /\ v <= value
  /\ met' = met \cup {client}
  /\ through' = through \cup {client}
  /\ UNCHANGED <<value, taken, count, promised, open>>

Continue(client) ==
  /\ client \in met
  /\ through' = through \cup {client}
  /\ UNCHANGED <<value, taken, count, promised, open, met>>

\* The fence holds the values of vals, and last in the end.
Hold(vals, last) ==
  LET satisfied == {r \in open : \E v \in vals : r.value <= v}
  IN  /\ value' = last
      /\ open' = open \ satisfied
      /\ met' = met \cup {r.key : r \in satisfied}

SignalNow(v) == Hold({v}, v) /\ UNCHANGED <<taken, count, promised, through>>

Schedule(v) ==
  /\ count' = count + 1
  /\ promised' = [n \in (taken + 1)..(count + 1) |->
                    IF n = count + 1 THEN v ELSE promised[n]]
  /\ UNCHANGED <<value, taken, open, met, through>>

\* The GPU got as far as signal n.
TakeUpTo(n) ==
  /\ Hold({promised[i] : i \in (taken + 1)..n}, promised[n])
  /\ taken' = n
  /\ promised' = [i \in (n + 1)..count |-> promised[i]]
  /\ UNCHANGED <<count, through>>

Next ==
  \/ \E client \in Clients, v \in Values : Ask(client, v) \/ AskAndContinue(client, v)
  \/ \E client \in Clients : Continue(client)
  \/ \E v \in Values : SignalNow(v) \/ Schedule(v)
  \/ \E n \in (taken + 1)..count : TakeUpTo(n)

Spec == Init /\ [][Next]_vars
=============================================================================
