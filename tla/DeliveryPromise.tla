-------------------------- MODULE DeliveryPromise --------------------------
(***************************************************************************)
(* What delivery notification promises to the code that uses it, without   *)
(* sequence numbers, acks, queues or clocks.                               *)
(*                                                                         *)
(* Each endpoint dispatches packets, accepts some of its peer's packets in *)
(* the order of their dispatch, and reports the fate of its own packets in *)
(* that order, each once.  "Delivered" is always true; "failed" only says  *)
(* that the endpoint has given the packet up.                              *)
(***************************************************************************)
EXTENDS Integers, Sequences

CONSTANTS A, B, MaxDispatched

VARIABLES
    dispatched,   \* dispatched[e]: number of packets e has dispatched
    accepted,     \* accepted[e]: the packets of its peer that e has accepted
    reported      \* reported[e][i]: was packet i of e reported delivered?

vars == <<dispatched, accepted, reported>>

Endpoint == {A, B}
Peer(e) == IF e = A THEN B ELSE A

Init ==
    /\ dispatched = [e \in Endpoint |-> 0]
    /\ accepted = [e \in Endpoint |-> << >>]
    /\ reported = [e \in Endpoint |-> << >>]

Dispatch(e) ==
    /\ dispatched[e] < MaxDispatched
    /\ dispatched' = [dispatched EXCEPT ![e] = @ + 1]
    /\ UNCHANGED <<accepted, reported>>

HasAccepted(e, n) == \E i \in 1 .. Len(accepted[e]) : accepted[e][i] = n

\* The fates of the next packets of e: only an accepted one is delivered.
ReportNext(e) ==
    \E k \in 0 .. (dispatched[e] - Len(reported[e])) :
    \E fates \in [1 .. k -> BOOLEAN] :
        /\ \A i \in 1 .. k :
               fates[i] => HasAccepted(Peer(e), Len(reported[e]) + i)
        /\ reported' = [reported EXCEPT ![e] = @ \o fates]

\* A later packet than any before; it may bring news of e's own packets.
Accept(e) ==
    /\ \E n \in 1 .. dispatched[Peer(e)] :
           /\ \A i \in 1 .. Len(accepted[e]) : accepted[e][i] < n
           /\ accepted' = [accepted EXCEPT ![e] = Append(@, n)]
    /\ ReportNext(e)
    /\ UNCHANGED dispatched

GiveUp(e) ==
    /\ ReportNext(e)
    /\ UNCHANGED <<dispatched, accepted>>

Next == \E e \in Endpoint : Dispatch(e) \/ Accept(e) \/ GiveUp(e)

Spec == Init /\ [][Next]_vars
============================================================================
