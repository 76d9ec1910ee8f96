--------------------------- MODULE MCRequestGate ---------------------------
(* Instances of RequestGate for TLC. *)
EXTENDS RequestGate, TLC

CONSTANTS a1, i1, n1, m1, m2, d1, d2, d3

Sign(a, n, ts) == [agent |-> a, nonce |-> n, ts |-> ts]
Deliver(m, i) == [message |-> m, source |-> i]

\* A message delivered twice, and a later message that carries its nonce.
ReuseSigned == m1 :> Sign(a1, n1, 2) @@ m2 :> Sign(a1, n1, 5)
ReuseDelivery == d1 :> Deliver(m1, i1) @@ d2 :> Deliver(m1, i1) @@ d3 :> Deliver(m2, i1)

LimitOne == i1 :> 1 @@ a1 :> 1

Drift == {-1, 0, 1}
=============================================================================
