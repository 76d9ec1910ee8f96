------------------------- MODULE MCIdempotentCall -------------------------
(* Instances of IdempotentCall for TLC. *)
EXTENDS IdempotentCall, TLC

CONSTANTS r1, r2, r3, r4, s1, s2, b1, b2, t1, t2

Ask(s, b, t) == [slot |-> s, body |-> b, target |-> t]

\* A request, its retry, its key reused for another body, and another key.  The
\* body names the resource.
RetryInput ==
  r1 :> Ask(s1, b1, t1) @@ r2 :> Ask(s1, b1, t1) @@
  r3 :> Ask(s1, b2, t2) @@ r4 :> Ask(s2, b2, t2)

\* POST /account/paygo/sessions/{id}/close, with an empty body, for two
\* sessions with one key.
CloseInput ==
  r1 :> Ask(s1, b1, t1) @@ r2 :> Ask(s1, b1, t2)
=============================================================================
