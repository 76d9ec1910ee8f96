--------------------------- MODULE MCRegistration ---------------------------
(* Instances of Registration for TLC. *)
EXTENDS Registration, TLC

CONSTANTS a1, a2, n1, n2, k1, k2, r1, r2, r3, r4, r5

Answer(a, n, ts, k) == [address |-> a, nonce |-> n, ts |-> ts, signed |-> TRUE, key |-> k]

\* One address answers two challenges; the first answer is sent again with its
\* own key and with another one, and one answer is forged.  Either challenge
\* may have been issued to the other address.
RaceInput ==
  r1 :> Answer(a1, n1, 1, k1) @@ r2 :> Answer(a1, n1, 1, k1) @@
  r3 :> Answer(a1, n1, 1, k2) @@ r4 :> Answer(a1, n2, 1, k2) @@
  r5 :> [Answer(a1, n2, 1, k1) EXCEPT !.signed = FALSE]

Exact == {0}
=============================================================================
